---- MODULE Spec2Model ----
(***************************************************************************)
(* Arbitrage detection engine, opportunity tracking, RiskManager and the   *)
(* simulated executors of the Polymarket arbitrage bot.                    *)
(*                                                                         *)
(* Units.  Time is in milliseconds.  Profit percentages are in hundredths  *)
(* of a percentage point (0.5 percentage points = 50).  Money is in whole  *)
(* dollars for the RiskManager / SimulationExecutor and in mills (1/1000   *)
(* dollar) for the PaperTradingExecutor.                                   *)
(***************************************************************************)
EXTENDS Integers, Sequences, FiniteSets, TLC

VARIABLES
    now,                  \* Date.now()
    \* ---- ArbitrageEngine ----
    trackedOpportunities, \* Map<string, TrackedOpportunity>: key -> entry
    trackedOrder,         \* insertion order of the Map's keys
    \* ---- arbitrage_opportunities table (external persistence) ----
    persisted,            \* id -> row
    dbErrors,             \* ids whose status update threw
    \* ---- ArbitrageRunner ----
    isRunning,
    exited,               \* process.exit was called
    detectionInterval,    \* TRUE once setInterval installed the timer
    cyclesRun,            \* stats.cyclesRun
    cyc,                  \* the activations of runDetectionCycle
    \* ---- ArbitrageEngine.detect as a function of the detectors ----
    enabledTypes,         \* arbConfig.enabledTypes
    detOutcomes,          \* what each detector's promise settles to
    detectResult,         \* what the promise of engine.detect settles to
    \* ---- SimulationExecutor and its RiskManager ----
    localRiskManager,     \* the fields of SimulationExecutor.localRiskManager
    riskCheck,            \* the last RiskCheckResult, with its request
    state,                \* SimulationExecutor.state
    lastResult,           \* the last ExecutionResult execute returned
    executionsAttempted,  \* ArbitrageRunner.stats.executionsAttempted
    simExec,              \* the execute calls suspended at their first await
    \* ---- PaperTradingExecutor ----
    bankroll,
    peakBalance,
    maxDrawdown,
    tradeIdCounter,
    trades,
    paperExec,            \* the activations of PaperTradingExecutor.execute
    \* ---- LLMClient, SemanticCache, SemanticDependencyDetector ----
    llmStats,             \* LLMClient.stats
    semCache,             \* the entries of the SemanticCache
    requests,             \* the requests sent to the external service
    sem,                  \* the activations of the semantic detector
    \* ---- the functions applied on their own ----
    call                  \* the last application: function, arguments, result

engineVars == <<trackedOpportunities, trackedOrder>>
dbVars     == <<persisted, dbErrors>>
runnerVars == <<isRunning, exited, detectionInterval, cyclesRun, cyc>>
detectVars == <<enabledTypes, detOutcomes, detectResult>>

riskVars   == <<localRiskManager, riskCheck>>
simVars    == <<state, lastResult, executionsAttempted, simExec>>
paperVars  == <<bankroll, peakBalance, maxDrawdown, tradeIdCounter, trades,
                paperExec>>
execVars   == <<riskVars, simVars, paperVars>>

llmVars    == <<llmStats, semCache, requests, sem>>

pureVars   == <<call>>

vars == <<now, engineVars, dbVars, runnerVars, detectVars, execVars, llmVars,
          pureVars>>

\* no function was applied yet
NoCall == [fn |-> "none"]

----------------------------------------------------------------------------
(* Bounds of the model *)

MaxTicks   == 2      \* the clock advances at most this many ticks
MaxCycles  == 3      \* detection cycles started
MaxOverlap == 2      \* activations of runDetectionCycle alive at once
MaxDetOut  == 1      \* opportunities one detector returns in one cycle
MaxExecTicks == 4    \* ticks of the executors' clock
MaxExecs   == 2      \* execute calls made on the two executors
MaxPaperOverlap == 2 \* activations of PaperTradingExecutor.execute at once
MaxDayTicks == 3     \* half-day ticks of the RiskManager's clock
MaxLLMTicks == 3     \* half-minute ticks of the LLM client's clock
MaxLLMOverlap == 2   \* activations of the semantic detector at once
MaxRequests == 3     \* requests sent before the last detector run starts
MaxDetIn   == 2      \* markets, events or pairs given to one detector
MaxTrackCycles == 11 \* detection cycles run on one tracking map
MaxUpdates == 4      \* updateAfterExecution calls on one RiskManager
MaxSimCalls == 3     \* execute calls made on the SimulationExecutor
MaxSimOverlap == 2   \* execute calls suspended at once
MaxCacheOps == 3     \* operations called on one SemanticCache

\* private readonly OPPORTUNITY_EXPIRY_MS = 5 * 60 * 1000
OPPORTUNITY_EXPIRY_MS == 5 * 60 * 1000

\* granularity of the clock: an entry seen one tick ago is exactly at the
\* expiry threshold, one seen two ticks ago is beyond it
TickMs == OPPORTUNITY_EXPIRY_MS

\* Math.abs(profit delta) > 0.5 in getNewOpportunities, in 1/100 of a point
SignificantChange == 50

\* priceHistory keeps the last 10 points
MaxPriceHistory == 10

NoId == 0            \* opp.id undefined

Slots == 1..MaxOverlap

----------------------------------------------------------------------------
(* Opportunities *)

Detectors == <<"multiOutcome", "negRisk", "crossMarket", "relatedMarket",
               "semanticDependency">>

DetectorSet == {Detectors[i] : i \in 1..Len(Detectors)}

Profits == {100, 200}

FeePercent == 100    \* POLYMARKET_FEE_PERCENT = 1.0

Opp(type, subType, m1, m2, profit) ==
    [type |-> type, subType |-> subType, market1Id |-> m1, market2Id |-> m2,
     profitPercent |-> profit, spread |-> profit + FeePercent,
     id |-> NoId, obj |-> 0]

\* what one detector can return for the two markets m1, m2
Candidates(d) ==
    CASE d = "multiOutcome" ->
           {Opp("multi_outcome", "", "m1", "", p) : p \in Profits}
      [] d = "negRisk" ->
           {Opp("multi_outcome", "negrisk", "m1", "", p) : p \in Profits}
      [] d = "crossMarket" ->
           {Opp("cross_market", "", "m1", "m2", 100)}
      [] d = "relatedMarket" ->
           {Opp("related_market", "", "m1", "m2", p) : p \in Profits}
      [] OTHER ->
           {Opp("related_market", "semantic", "m1", "m2", p) : p \in Profits}

SeqsUpTo(S, n) == UNION {[1..k -> S] : k \in 0..n}

IsSortedDesc(s) ==
    \A i \in 1..Len(s) : \A j \in 1..Len(s) :
        i < j => s[i].profitPercent >= s[j].profitPercent

\* a detector returns its opportunities sorted by profit, descending
DetectorOutputs(d) ==
    {s \in SeqsUpTo(Candidates(d), MaxDetOut) : IsSortedDesc(s)}

Fulfilled(v) == [status |-> "fulfilled", value |-> v]
Rejected     == [status |-> "rejected", value |-> <<>>]

\* the promise returned by detector.detect(markets)
DetectorPromises(d) == {Rejected} \cup {Fulfilled(s) : s \in DetectorOutputs(d)}

----------------------------------------------------------------------------
(* ArbitrageEngine *)

getOpportunityKeyUnstable(opp) ==
    <<opp.type, opp.market1Id, opp.market2Id, opp.profitPercent>>

getOpportunityKey(opp) ==
    IF opp.type = "multi_outcome"
    THEN <<"mo", opp.market1Id>>
    ELSE <<opp.type, opp.market1Id, opp.market2Id>>

RECURSIVE InsertDesc(_, _)
\* position of o in a list sorted by profit descending, after its equals
InsertDesc(s, o) ==
    IF s = <<>> THEN <<o>>
    ELSE IF Head(s).profitPercent >= o.profitPercent
         THEN <<Head(s)>> \o InsertDesc(Tail(s), o)
         ELSE <<o>> \o s

RECURSIVE SortByProfit(_)
\* opportunities.sort((a, b) => b.profitPercent - a.profitPercent), stable
SortByProfit(s) ==
    IF s = <<>> THEN <<>>
    ELSE InsertDesc(SortByProfit(SubSeq(s, 1, Len(s) - 1)), s[Len(s)])

RECURSIVE DedupeSorted(_, _)
DedupeSorted(s, seen) ==
    IF s = <<>> THEN <<>>
    ELSE IF getOpportunityKey(Head(s)) \in seen
         THEN DedupeSorted(Tail(s), seen)
         ELSE <<Head(s)>> \o
              DedupeSorted(Tail(s), seen \cup {getOpportunityKey(Head(s))})

filterAndDedupeUnsorted(opportunities) == DedupeSorted(opportunities, {})

filterAndDedupe(opportunities) == DedupeSorted(SortByProfit(opportunities), {})

Range(s) == {s[i] : i \in 1..Len(s)}

EmptyMap == <<>>

\* Map.set on a key -> value function
MapSet(f, k, v) == [x \in DOMAIN f \cup {k} |-> IF x = k THEN v ELSE f[x]]

\* Map.delete
MapDelete(f, k) == [x \in DOMAIN f \ {k} |-> f[x]]

RECURSIVE Without(_, _)
Without(s, k) ==
    IF s = <<>> THEN <<>>
    ELSE IF Head(s) = k THEN Without(Tail(s), k)
         ELSE <<Head(s)>> \o Without(Tail(s), k)

\* priceHistory.push without the shift that keeps the last 10 points
PushHistoryUnbounded(h, point) == h \o <<point>>

\* priceHistory.push(point), then shift() if more than 10 points are held
PushHistory(h, point) ==
    IF Len(h) + 1 > MaxPriceHistory THEN Tail(h \o <<point>>) ELSE h \o <<point>>

\* the body of the loop of updateTracking for one opportunity
TrackOne(tracked, opp, t) ==
    LET key == getOpportunityKey(opp) IN
    IF key \in DOMAIN tracked
    THEN MapSet(tracked, key,
           [tracked[key] EXCEPT
              !.lastSeenAt = t,
              !.seenCount = @ + 1,
              !.opportunity = opp,
              !.priceHistory = PushHistory(@, [timestamp |-> t, spread |-> opp.spread])])
    ELSE MapSet(tracked, key,
           [opportunity |-> opp, firstSeenAt |-> t, lastSeenAt |-> t,
            seenCount |-> 1,
            priceHistory |-> <<[timestamp |-> t, spread |-> opp.spread]>>,
            executed |-> FALSE])

RECURSIVE updateTracking(_, _, _)
\* the tracking map after updateTracking(opportunities) at time t
updateTracking(tracked, opportunities, t) ==
    IF opportunities = <<>> THEN tracked
    ELSE updateTracking(TrackOne(tracked, Head(opportunities), t),
                        Tail(opportunities), t)

RECURSIVE updateOrder(_, _)
\* insertion order of the Map after updateTracking(opportunities)
updateOrder(order, opportunities) ==
    IF opportunities = <<>> THEN order
    ELSE LET key == getOpportunityKey(Head(opportunities)) IN
         updateOrder(IF key \in Range(order) THEN order ELSE Append(order, key),
                     Tail(opportunities))

IsNewNoConfirm(tracked, opp) ==
    LET key == getOpportunityKey(opp) IN
    \/ key \notin DOMAIN tracked
    \/ /\ key \in DOMAIN tracked
       /\ tracked[key].seenCount # 1
       /\ LET d == opp.profitPercent - tracked[key].opportunity.profitPercent
          IN  (IF d < 0 THEN -d ELSE d) > SignificantChange

\* the three branches of the loop of getNewOpportunities
IsNew(tracked, opp) ==
    LET key == getOpportunityKey(opp) IN
    \/ key \notin DOMAIN tracked
    \/ /\ key \in DOMAIN tracked
       /\ tracked[key].seenCount = 1
    \/ /\ key \in DOMAIN tracked
       /\ tracked[key].seenCount # 1
       /\ LET d == opp.profitPercent - tracked[key].opportunity.profitPercent
          IN  (IF d < 0 THEN -d ELSE d) > SignificantChange

getNewOpportunities(tracked, opportunities) ==
    SelectSeq(opportunities, LAMBDA o : IsNew(tracked, o))

CatchMissing(p) == p

\* promise.catch(err => { console.error(...); return []; })
Catch(p) == IF p.status = "rejected" THEN Fulfilled(<<>>) ELSE p

\* the detectionPromises pushed for the enabled detectors, in order
detectionPromises(outcomes, enabled) ==
    LET on == SelectSeq(Detectors, LAMBDA d : d \in enabled)
    IN  [i \in 1..Len(on) |-> Catch(outcomes[on[i]])]

\* Promise.all
PromiseAll(ps) ==
    IF \E i \in 1..Len(ps) : ps[i].status = "rejected"
    THEN Rejected
    ELSE Fulfilled([i \in 1..Len(ps) |-> ps[i].value])

RECURSIVE Flatten(_)
\* for (const opportunities of results) allOpportunities.push(...opportunities)
Flatten(results) ==
    IF results = <<>> THEN <<>>
    ELSE Head(results) \o Flatten(Tail(results))

\* the objects a detector creates in cycle c are new objects
Fresh(opps, c) == [i \in 1..Len(opps) |-> [opps[i] EXCEPT !.obj = c]]

\* ArbitrageEngine.detect: what its promise settles to, and the tracking map
detect(outcomes, enabled, tracked, order, t, c) ==
    LET all == PromiseAll(detectionPromises(outcomes, enabled)) IN
    IF all.status = "rejected"
    THEN [status |-> "rejected", opportunities |-> <<>>,
          tracked |-> tracked, order |-> order]
    ELSE LET filtered == filterAndDedupe(Fresh(Flatten(all.value), c)) IN
         [status |-> "fulfilled", opportunities |-> filtered,
          tracked |-> updateTracking(tracked, filtered, t),
          order |-> updateOrder(order, filtered)]

IsExpiredInclusive(entry, t) == t - entry.lastSeenAt >= OPPORTUNITY_EXPIRY_MS

\* now - tracked.lastSeenAt > this.OPPORTUNITY_EXPIRY_MS
IsExpired(entry, t) == t - entry.lastSeenAt > OPPORTUNITY_EXPIRY_MS

\* the first loop of expireOldOpportunities: the keys to expire, in Map order
expiredKeys(tracked, order, t) ==
    SelectSeq(order, LAMBDA k : IsExpired(tracked[k], t))

\* tracked?.opportunity.id
HasId(tracked, key) ==
    key \in DOMAIN tracked /\ tracked[key].opportunity.id # NoId

RECURSIVE expireLoop(_, _, _, _)
\* the second loop of expireOldOpportunities, run until it has to await
\* arbitrageRepo.updateOpportunityStatus or the list is exhausted
expireLoop(keys, tracked, order, removed) ==
    IF keys = <<>> \/ HasId(tracked, Head(keys))
    THEN [keys |-> keys, tracked |-> tracked, order |-> order,
          removed |-> removed]
    ELSE expireLoop(Tail(keys), MapDelete(tracked, Head(keys)),
                    Without(order, Head(keys)),
                    removed \cup ({Head(keys)} \cap DOMAIN tracked))

----------------------------------------------------------------------------
(* Configuration and the opportunities handed to the executors *)

DayMs == 24 * 60 * 60 * 1000

\* loadArbitrageConfig() under ARB_MAX_POSITION_SIZE_USD=150,
\* ARB_MAX_TOTAL_EXPOSURE_USD=250, ARB_MAX_DAILY_LOSS_USD=50 and the defaults
\* for the rest; money in dollars
arbConfig ==
    [simulation |-> [startingBalance |-> 10000],
     risk |-> [maxPositionSizeUsd |-> 150,
               maxTotalExposureUsd |-> 250,
               maxDailyLossUsd |-> 50,
               minLiquidityUsd |-> 5000,
               tradeCooldownMs |-> 5000]]

Markets == {"m1", "m2"}

OtherMarket(m) == IF m = "m1" THEN "m2" ELSE "m1"

\* liquidity figures around the floor; 0 stands for a missing market2Liquidity
Liquidities == {4000, 10000}

\* profit percentages in 1/100 of a point: 0.05 %, 0.5 % and 2 %
ExecProfits == {5, 50, 200}

\* a MultiOutcomeOpportunity as the executors read it
MultiOutcomeOpp(m1, liq1, profit, direction, confidence) ==
    [type |-> "multi_outcome", market1Id |-> m1, market2Id |-> "",
     market1Liquidity |-> liq1, market2Liquidity |-> 0,
     profitPercent |-> profit, direction |-> direction,
     confidenceScore |-> confidence]

\* a CrossMarketOpportunity as the executors read it
CrossMarketOpp(m1, liq1, liq2, profit, confidence) ==
    [type |-> "cross_market", market1Id |-> m1, market2Id |-> OtherMarket(m1),
     market1Liquidity |-> liq1, market2Liquidity |-> liq2,
     profitPercent |-> profit, direction |-> "",
     confidenceScore |-> confidence]

\* confidence scores in 1/100
Confidences == {60, 80}

ExecOpps ==
    {MultiOutcomeOpp(m, l, p, d, 80) :
        m \in Markets, l \in Liquidities, p \in ExecProfits \ {50},
        d \in {"underpriced", "overpriced"}}
    \cup
    {CrossMarketOpp(m, l1, l2, p, 80) :
        m \in Markets, l1 \in Liquidities, l2 \in Liquidities \cup {0},
        p \in ExecProfits \ {50}}

\* what the ArbitrageRunner passes on: opportunities of markets the
\* detectors found liquid enough
RunnerOpps ==
    {o \in ExecOpps : o.market1Liquidity = 10000 /\ o.market2Liquidity # 0}
    \cup {o \in ExecOpps : o.type = "multi_outcome" /\ o.market1Liquidity = 10000}

\* what DashboardServer.detectArbitrage passes on:
\* opportunity.profitPercent >= 0.5 && opportunity.confidenceScore >= 0.6
PaperOpps ==
    {o \in {MultiOutcomeOpp("m1", 10000, p, "underpriced", c) :
               p \in ExecProfits, c \in Confidences}
            \cup {CrossMarketOpp("m1", 10000, 10000, 200, 80)} :
        o.profitPercent >= 50 /\ o.confidenceScore >= 60}

Min(a, b) == IF a <= b THEN a ELSE b

Max(a, b) == IF a >= b THEN a ELSE b

----------------------------------------------------------------------------
(* RiskManager *)

\* tomorrow.setUTCHours(24, 0, 0, 0): the first UTC midnight after t
getNextMidnight(t) == (t \div DayMs + 1) * DayMs

\* the fields of a RiskManager constructed at time t
NewRiskManager(t) ==
    [limits |-> [maxPositionSizeUsd |-> arbConfig.risk.maxPositionSizeUsd,
                 maxTotalExposureUsd |-> arbConfig.risk.maxTotalExposureUsd,
                 maxDailyLossUsd |-> arbConfig.risk.maxDailyLossUsd,
                 maxSlippagePercent |-> 1,
                 minLiquidityUsd |-> arbConfig.risk.minLiquidityUsd,
                 maxGasCostUsd |-> 5,
                 cooldownMs |-> arbConfig.risk.tradeCooldownMs],
     positions |-> EmptyMap,      \* marketId -> position size
     dailyPnL |-> 0,
     dailyVolume |-> 0,
     lastTradeTime |-> 0,
     totalExposure |-> 0,
     dailyReset |-> getNextMidnight(t)]

resetDaily(rm, t) ==
    [rm EXCEPT !.dailyPnL = 0, !.dailyVolume = 0,
               !.dailyReset = getNextMidnight(t)]

checkDailyResetAfter(rm, t) == IF t > rm.dailyReset THEN resetDaily(rm, t) ELSE rm

\* if (new Date() >= this.dailyReset) this.resetDaily()
checkDailyReset(rm, t) == IF t >= rm.dailyReset THEN resetDaily(rm, t) ELSE rm

\* one element of the checks array; a failing check's reason names the check
CheckResult(name, passed) ==
    [name |-> name, passed |-> passed, reason |-> IF passed THEN "" ELSE name]

\* existingPosition?.size || 0
PositionSize(rm, marketId) ==
    IF marketId \in DOMAIN rm.positions THEN rm.positions[marketId] ELSE 0

checkPositionLimit(rm, opportunity, orderSizeUsd) ==
    CheckResult("position_limit",
        PositionSize(rm, opportunity.market1Id) + orderSizeUsd
            <= rm.limits.maxPositionSizeUsd)

checkTotalExposure(rm, orderSizeUsd) ==
    CheckResult("total_exposure",
        rm.totalExposure + orderSizeUsd <= rm.limits.maxTotalExposureUsd)

checkDailyLoss(rm) ==
    CheckResult("daily_loss", rm.dailyPnL > -rm.limits.maxDailyLossUsd)

\* Math.min(market1Liquidity, market2Liquidity || Infinity) for two markets
minLiquidity(opportunity) ==
    IF opportunity.type = "multi_outcome" \/ opportunity.market2Liquidity = 0
    THEN opportunity.market1Liquidity
    ELSE Min(opportunity.market1Liquidity, opportunity.market2Liquidity)

checkLiquidity(rm, opportunity) ==
    CheckResult("liquidity", minLiquidity(opportunity) >= rm.limits.minLiquidityUsd)

checkCooldown(rm, t) ==
    CheckResult("cooldown", t - rm.lastTradeTime >= rm.limits.cooldownMs)

\* profitPercent - (orderSizeUsd / market1Liquidity) * 0.5 * 100 > 0.1, in
\* 1/100 of a point and multiplied by market1Liquidity; a zero liquidity
\* makes the estimate infinite (or NaN) and the check fail
checkMinProfitability(opportunity, orderSizeUsd) ==
    CheckResult("profitability",
        /\ opportunity.market1Liquidity > 0
        /\ (opportunity.profitPercent - 10) * opportunity.market1Liquidity
              > orderSizeUsd * 5000)

findLast(checks) ==
    IF \A i \in 1..Len(checks) : checks[i].passed THEN 0
    ELSE CHOOSE i \in 1..Len(checks) :
            /\ ~checks[i].passed
            /\ \A j \in 1..Len(checks) : j > i => checks[j].passed

\* checks.find(c => !c.passed): the index of the first failing check, 0 for
\* undefined
find(checks) ==
    IF \A i \in 1..Len(checks) : checks[i].passed THEN 0
    ELSE CHOOSE i \in 1..Len(checks) :
            /\ ~checks[i].passed
            /\ \A j \in 1..Len(checks) : j < i => checks[j].passed

\* RiskManager.checkPreExecution at time t: the RiskCheckResult and the
\* RiskManager after checkDailyReset
checkPreExecution(rm, opportunity, orderSizeUsd, t) ==
    LET r == checkDailyReset(rm, t)
        checks == <<checkPositionLimit(r, opportunity, orderSizeUsd),
                    checkTotalExposure(r, orderSizeUsd),
                    checkDailyLoss(r),
                    checkLiquidity(r, opportunity),
                    checkCooldown(r, t),
                    checkMinProfitability(opportunity, orderSizeUsd)>>
        failed == find(checks)
    IN  [approved |-> failed = 0,
         reason |-> IF failed = 0 THEN "" ELSE checks[failed].reason,
         checks |-> checks,
         rm |-> r]

RECURSIVE SumAbs(_, _)
\* Array.from(positions.values()).reduce((sum, p) => sum + Math.abs(p.size), 0)
SumAbs(positions, keys) ==
    IF keys = {} THEN 0
    ELSE LET k == CHOOSE x \in keys : TRUE
         IN  (IF positions[k] < 0 THEN -positions[k] ELSE positions[k])
               + SumAbs(positions, keys \ {k})

\* updateAfterExecution without "if (existing.size <= 0) positions.delete"
updateAfterExecutionKeeping(rm, marketId, side, sizeUsd, pnl, t) ==
    LET positions ==
          IF marketId \in DOMAIN rm.positions
          THEN MapSet(rm.positions, marketId,
                      IF side = "BUY" THEN rm.positions[marketId] + sizeUsd
                      ELSE rm.positions[marketId] - sizeUsd)
          ELSE IF side = "BUY" THEN MapSet(rm.positions, marketId, sizeUsd)
               ELSE rm.positions
    IN  [rm EXCEPT !.dailyPnL = @ + pnl,
                   !.dailyVolume = @ + sizeUsd,
                   !.lastTradeTime = t,
                   !.positions = positions,
                   !.totalExposure =
                       SumAbs(positions, DOMAIN positions)]

\* RiskManager.updateAfterExecution at time t (price only feeds the
\* position's currentPrice and unrealizedPnl, which nothing reads)
updateAfterExecution(rm, marketId, side, sizeUsd, pnl, t) ==
    LET positions ==
          IF marketId \in DOMAIN rm.positions
          THEN LET size == IF side = "BUY"
                           THEN rm.positions[marketId] + sizeUsd
                           ELSE rm.positions[marketId] - sizeUsd
               IN  IF size <= 0 THEN MapDelete(rm.positions, marketId)
                   ELSE MapSet(rm.positions, marketId, size)
          ELSE IF side = "BUY" THEN MapSet(rm.positions, marketId, sizeUsd)
               ELSE rm.positions
    IN  [rm EXCEPT !.dailyPnL = @ + pnl,
                   !.dailyVolume = @ + sizeUsd,
                   !.lastTradeTime = t,
                   !.positions = positions,
                   !.totalExposure = SumAbs(positions, DOMAIN positions)]

----------------------------------------------------------------------------
(* SimulationExecutor *)

NoOpp == MultiOutcomeOpp("", 0, 0, "", 0)

\* SimulationExecutor.state after construction; lastTradeAt 0 stands for null
NewSimulationState ==
    [balance |-> arbConfig.simulation.startingBalance,
     startingBalance |-> arbConfig.simulation.startingBalance,
     totalPnl |-> 0, dailyPnl |-> 0,
     tradesExecuted |-> 0, tradesSuccessful |-> 0,
     lastTradeAt |-> 0]

\* realizedProfitUsd of a filled execution.  executeMultiOutcome and
\* executeTwoLegged compute it from the executed prices, which carry the
\* random noise of slippageModel.addNoise: a loss or a gain, in dollars
PnLs(type) == IF type = "multi_outcome" THEN {-40, 5} ELSE {-60, 5}

\* leg1.side and leg1.filledSize of executeMultiOutcome / executeTwoLegged
Leg1Side(opportunity) ==
    IF opportunity.type = "multi_outcome" /\ opportunity.direction # "underpriced"
    THEN "SELL" ELSE "BUY"

Leg1Filled(opportunity, sizeUsd) ==
    IF opportunity.type = "multi_outcome" THEN sizeUsd \div 2 ELSE sizeUsd

createFailedResult(opportunity, sizeUsd, reason) ==
    [status |-> "failed", failureReason |-> reason,
     opportunity |-> opportunity, sizeUsd |-> sizeUsd,
     side |-> "BUY", filledSize |-> 0, realizedProfitUsd |-> 0, id |-> NoId]

NoExecution == createFailedResult(NoOpp, 0, "")

SimulationExecutor_executeCounting(rm, st, opportunity, sizeUsd, t, pnl, saved) ==
    LET check == checkPreExecution(rm, opportunity, sizeUsd, t) IN
    IF ~check.approved
    THEN [rm |-> check.rm, state |-> st, riskCheck |-> check,
          result |-> createFailedResult(opportunity, sizeUsd, check.reason)]
    ELSE IF st.balance < sizeUsd
    THEN [rm |-> [check.rm EXCEPT !.lastTradeTime = t],
          state |-> [st EXCEPT !.tradesExecuted = @ + 1, !.lastTradeAt = t],
          riskCheck |-> check,
          result |-> createFailedResult(opportunity, sizeUsd,
                                        "Insufficient balance")]
    ELSE [rm |-> updateAfterExecution(check.rm, opportunity.market1Id,
                     Leg1Side(opportunity), Leg1Filled(opportunity, sizeUsd),
                     pnl, t),
          state |-> [st EXCEPT !.tradesSuccessful = @ + 1,
                               !.totalPnl = @ + pnl,
                               !.dailyPnl = @ + pnl,
                               !.balance = @ + pnl,
                               !.tradesExecuted = @ + 1,
                               !.lastTradeAt = t],
          riskCheck |-> check,
          result |-> [status |-> "complete", failureReason |-> "",
                      opportunity |-> opportunity, sizeUsd |-> sizeUsd,
                      side |-> Leg1Side(opportunity),
                      filledSize |-> Leg1Filled(opportunity, sizeUsd),
                      realizedProfitUsd |-> pnl,
                      id |-> IF saved THEN st.tradesExecuted + 1 ELSE NoId]]

SimulationExecutor_executeRollback(rm, st, opportunity, sizeUsd, t, pnl, saved) ==
    LET check == checkPreExecution(rm, opportunity, sizeUsd, t) IN
    IF ~check.approved
    THEN [rm |-> check.rm, state |-> st, riskCheck |-> check,
          result |-> createFailedResult(opportunity, sizeUsd, check.reason)]
    ELSE IF st.balance < sizeUsd
    THEN [rm |-> check.rm, state |-> st, riskCheck |-> check,
          result |-> createFailedResult(opportunity, sizeUsd,
                                        "Insufficient balance")]
    ELSE [rm |-> IF saved
                 THEN updateAfterExecution(check.rm, opportunity.market1Id,
                          Leg1Side(opportunity),
                          Leg1Filled(opportunity, sizeUsd), pnl, t)
                 ELSE check.rm,
          state |-> IF saved
                    THEN [st EXCEPT !.tradesSuccessful = @ + 1,
                                    !.totalPnl = @ + pnl,
                                    !.dailyPnl = @ + pnl,
                                    !.balance = @ + pnl,
                                    !.tradesExecuted = @ + 1,
                                    !.lastTradeAt = t]
                    ELSE st,
          riskCheck |-> check,
          result |-> [status |-> "complete", failureReason |-> "",
                      opportunity |-> opportunity, sizeUsd |-> sizeUsd,
                      side |-> Leg1Side(opportunity),
                      filledSize |-> Leg1Filled(opportunity, sizeUsd),
                      realizedProfitUsd |-> pnl,
                      id |-> IF saved THEN st.tradesExecuted + 1 ELSE NoId]]

\* SimulationExecutor.execute({opportunity, sizeUsd}) at time t, where a
\* filled execution realizes pnl and saveExecution returns an id iff saved
SimulationExecutor_execute(rm, st, opportunity, sizeUsd, t, pnl, saved) ==
    LET check == checkPreExecution(rm, opportunity, sizeUsd, t) IN
    IF ~check.approved
    THEN [rm |-> check.rm, state |-> st, riskCheck |-> check,
          result |-> createFailedResult(opportunity, sizeUsd, check.reason)]
    ELSE IF st.balance < sizeUsd
    THEN [rm |-> check.rm, state |-> st, riskCheck |-> check,
          result |-> createFailedResult(opportunity, sizeUsd,
                                        "Insufficient balance")]
    ELSE [rm |-> updateAfterExecution(check.rm, opportunity.market1Id,
                     Leg1Side(opportunity), Leg1Filled(opportunity, sizeUsd),
                     pnl, t),
          state |-> [st EXCEPT !.tradesSuccessful = @ + 1,
                               !.totalPnl = @ + pnl,
                               !.dailyPnl = @ + pnl,
                               !.balance = @ + pnl,
                               !.tradesExecuted = @ + 1,
                               !.lastTradeAt = t],
          riskCheck |-> check,
          result |-> [status |-> "complete", failureReason |-> "",
                      opportunity |-> opportunity, sizeUsd |-> sizeUsd,
                      side |-> Leg1Side(opportunity),
                      filledSize |-> Leg1Filled(opportunity, sizeUsd),
                      realizedProfitUsd |-> pnl,
                      id |-> IF saved THEN st.tradesExecuted + 1 ELSE NoId]]

\* the sizeUsd ArbitrageRunner.executeOpportunity asks for:
\* Math.min(state.balance * 0.1, arbConfig.risk.maxPositionSizeUsd, 100)
RunnerSizeUsd(st) ==
    Min(Min(st.balance \div 10, arbConfig.risk.maxPositionSizeUsd), 100)

----------------------------------------------------------------------------
(* PaperTradingExecutor: money in mills, fractions in 1/10000 *)

\* new PaperTradingExecutor(100)
StartingBankroll == 100 * 1000

\* calculateKellyFraction without its lower clamp Math.max(0.01, ...)
calculateKellyFractionUnfloored(confidenceScore, expectedProfitPercent) ==
    LET p == Min(95, Max(50, confidenceScore))
        num == expectedProfitPercent * p - 200 * (100 - p)
    IN  IF expectedProfitPercent = 0 THEN 0 - 10000
        ELSE IF expectedProfitPercent > 0
        THEN Min(2500, (50 * num) \div expectedProfitPercent)
        ELSE Min(2500, (50 * (-num)) \div (-expectedProfitPercent))

\* Math.min(0.25, Math.max(0.01, kelly * 0.5)) with
\*   kelly = (odds * p - q) / odds, odds = (profit / 100) / 0.02,
\*   p = clamp(confidence, 0.5, 0.95), q = 1 - p
\* which is (profit * p - 2 * q) / (2 * profit); for a zero profit kelly is
\* -Infinity and the result 0.01
calculateKellyFraction(confidenceScore, expectedProfitPercent) ==
    LET p == Min(95, Max(50, confidenceScore))
        num == expectedProfitPercent * p - 200 * (100 - p)
        half == IF expectedProfitPercent > 0
                THEN (50 * num) \div expectedProfitPercent
                ELSE (50 * (-num)) \div (-expectedProfitPercent)
    IN  IF expectedProfitPercent = 0 THEN 100
        ELSE Min(2500, Max(100, half))

\* calculatePositionSize without "if (this.bankroll < 10) return 0"
calculatePositionSizeAnyBankroll(bank, opportunity) ==
    LET kellyFraction == calculateKellyFraction(opportunity.confidenceScore,
                                                opportunity.profitPercent)
        sized == (bank * kellyFraction) \div 10000
    IN  Max(Min(Min(sized, arbConfig.risk.maxPositionSizeUsd * 1000),
                bank \div 4), 5 * 1000)

\* calculatePositionSize with a floor of $15 in place of Math.max(..., 5)
calculatePositionSizeFloorFifteen(bank, opportunity) ==
    LET kellyFraction == calculateKellyFraction(opportunity.confidenceScore,
                                                opportunity.profitPercent)
        sized == (bank * kellyFraction) \div 10000
        capped == Min(Min(sized, arbConfig.risk.maxPositionSizeUsd * 1000),
                      bank \div 4)
    IN  IF bank < 10 * 1000 THEN 0 ELSE Max(capped, 15 * 1000)

\* PaperTradingExecutor.calculatePositionSize with this.bankroll = bank
calculatePositionSize(bank, opportunity) ==
    LET kellyFraction == calculateKellyFraction(opportunity.confidenceScore,
                                                opportunity.profitPercent)
        sized == (bank * kellyFraction) \div 10000
        capped == Min(Min(sized, arbConfig.risk.maxPositionSizeUsd * 1000),
                      bank \div 4)
    IN  IF bank < 10 * 1000 THEN 0 ELSE Max(capped, 5 * 1000)

\* what simulateCLOBExecution can return: a failed leg 1, a failed leg 2, or
\* a fill of 50-100 % with the noisy slippage of the two legs
CLOBExecutions ==
    {[leg1Failed |-> TRUE, leg2Failed |-> FALSE, fillRate |-> 100,
      totalSlippageBps |-> 10],
     [leg1Failed |-> FALSE, leg2Failed |-> TRUE, fillRate |-> 100,
      totalSlippageBps |-> 10]}
    \cup
    {[leg1Failed |-> FALSE, leg2Failed |-> FALSE, fillRate |-> f,
      totalSlippageBps |-> s] : f \in {50, 100}, s \in {10, 300}}

\* the settlement with a failed second leg unwound at no loss
settleUnwoundFree(bank, positionSize, opportunity, executionResult) ==
    IF executionResult.leg1Failed
    THEN [bankroll |-> bank + positionSize,
          realizedProfit |-> -(positionSize \div 1000),
          success |-> FALSE, failureReason |-> "Leg 1 execution failed"]
    ELSE IF executionResult.leg2Failed
    THEN [bankroll |-> bank + positionSize, realizedProfit |-> 0,
          success |-> FALSE,
          failureReason |-> "Leg 2 failed - position unwound at loss"]
    ELSE LET realizedProfit ==
                 (((opportunity.profitPercent * positionSize) \div 10000)
                     * executionResult.fillRate) \div 100
                 - (executionResult.totalSlippageBps * positionSize) \div 10000
                 - positionSize \div 100
         IN  [bankroll |-> bank + positionSize + realizedProfit,
              realizedProfit |-> realizedProfit,
              success |-> realizedProfit > 0,
              failureReason |-> IF realizedProfit > 0 THEN ""
                                ELSE "Slippage exceeded profit margin"]

\* the settlement of PaperTradingExecutor.execute after the execution delay:
\* the bankroll and the outcome recorded in the trade
settle(bank, positionSize, opportunity, executionResult) ==
    IF executionResult.leg1Failed
    THEN [bankroll |-> bank + positionSize,
          realizedProfit |-> -(positionSize \div 1000),
          success |-> FALSE, failureReason |-> "Leg 1 execution failed"]
    ELSE IF executionResult.leg2Failed
    THEN [bankroll |-> bank + positionSize - (positionSize * 2) \div 100,
          realizedProfit |-> -((positionSize * 2) \div 100),
          success |-> FALSE,
          failureReason |-> "Leg 2 failed - position unwound at loss"]
    ELSE LET slippageCost ==
                 (executionResult.totalSlippageBps * positionSize) \div 10000
             fees == positionSize \div 100
             grossProfit == (opportunity.profitPercent * positionSize) \div 10000
             realizedProfit ==
                 (grossProfit * executionResult.fillRate) \div 100
                    - slippageCost - fees
         IN  [bankroll |-> bank + positionSize + realizedProfit,
              realizedProfit |-> realizedProfit,
              success |-> realizedProfit > 0,
              failureReason |-> IF realizedProfit > 0 THEN ""
                                ELSE "Slippage exceeded profit margin"]

\* the drawdown measured from the starting bankroll instead of the peak
DrawdownFromStart(peak, bank) ==
    ((StartingBankroll - bank) * 10000) \div StartingBankroll

\* (this.peakBalance - this.bankroll) / this.peakBalance
Drawdown(peak, bank) == ((peak - bank) * 10000) \div peak

\* an activation of PaperTradingExecutor.execute: idle, or asleep in the
\* execution delay with its capital deducted
IdlePaper == [pc |-> "idle", opportunity |-> NoOpp, positionSize |-> 0,
              kellyFraction |-> 0]

----------------------------------------------------------------------------
(* SemanticDependencyDetector, SemanticCache and LLMClient *)

\* arbConfig.llm under LLM_RATE_LIMIT=2 and LLM_CACHE_TTL_MS=60000 with the
\* defaults for the rest; confidences in 1/100
llmConfig ==
    [rateLimitPerMinute |-> 2,
     cacheTtlMs |-> 60000,
     maxCacheSize |-> 10000,
     minConfidenceThreshold |-> 75]

\* the window of waitForRateLimit
RateWindowMs == 60000

\* granularity of the clock: half a window
LLMTickMs == RateWindowMs \div 2

SemMarkets == <<"m1", "m2", "m3", "m4", "m5", "m6", "m7">>

MarketIndex(m) == CHOOSE i \in 1..Len(SemMarkets) : SemMarkets[i] = m

\* the market pairs that share a name and a keyword, in the order of the
\* loops of findCandidatePairs
EntityPairs == <<<<"m1", "m2">>, <<"m1", "m3">>>>

\* the key of the pair as given, without the sort
generateKeyUnsorted(market1Id, market2Id) == <<market1Id, market2Id>>

\* [market1Id, market2Id].sort()
generateKey(market1Id, market2Id) ==
    IF MarketIndex(market1Id) <= MarketIndex(market2Id)
    THEN <<market1Id, market2Id>> ELSE <<market2Id, market1Id>>

\* a SemanticAnalysisResult as createOpportunity reads it; actionable says
\* that it carries a constraint and an arbitrage direction
Analysis(relationshipType, confidence, actionable) ==
    [relationshipType |-> relationshipType, confidence |-> confidence,
     actionable |-> actionable]

\* null
NoAnalysis == Analysis("null", 0, FALSE)

\* the negativeResult of analyzeMarketPair
NegativeResult == Analysis("none", 0, FALSE)

\* the Map of the SemanticCache, in insertion order
CacheIndex(cache, key) ==
    IF \E i \in 1..Len(cache) : cache[i].key = key
    THEN CHOOSE i \in 1..Len(cache) : cache[i].key = key
    ELSE 0

RemoveAt(s, i) == SubSeq(s, 1, i - 1) \o SubSeq(s, i + 1, Len(s))

\* SemanticCache.get at time t: the cache afterwards and the result
SemanticCache_get(cache, market1Id, market2Id, t) ==
    LET i == CacheIndex(cache, generateKey(market1Id, market2Id)) IN
    IF i = 0 THEN [cache |-> cache, result |-> NoAnalysis]
    ELSE IF t - cache[i].cachedAt > llmConfig.cacheTtlMs
         THEN [cache |-> RemoveAt(cache, i), result |-> NoAnalysis]
         ELSE [cache |-> [cache EXCEPT ![i].lastAccess = t],
               result |-> cache[i].result]

RECURSIVE EvictOldest(_, _)
\* delete the n entries accessed longest ago (a stable sort by lastAccess)
EvictOldest(cache, n) ==
    IF n = 0 \/ cache = <<>> THEN cache
    ELSE LET i == CHOOSE k \in 1..Len(cache) :
                    \A j \in 1..Len(cache) :
                       \/ cache[k].lastAccess < cache[j].lastAccess
                       \/ (cache[k].lastAccess = cache[j].lastAccess /\ k <= j)
         IN  EvictOldest(RemoveAt(cache, i), n - 1)

\* an eviction of the entries inserted first, whenever they were accessed
evictFirstInserted(cache) ==
    SubSeq(cache, Max(1, Len(cache) \div 10) + 1, Len(cache))

\* SemanticCache.evictLRU: the oldest 10 %, one entry at least
evictLRU(cache) == EvictOldest(cache, Max(1, Len(cache) \div 10))

\* SemanticCache.set at time t on a cache constructed with maxSize
SemanticCache_setAt(maxSize, cache, market1Id, market2Id, result, t) ==
    LET key == generateKey(market1Id, market2Id)
        kept == IF Len(cache) >= maxSize THEN evictLRU(cache) ELSE cache
        i == CacheIndex(kept, key)
        entry == [key |-> key, result |-> result, cachedAt |-> t,
                  lastAccess |-> t]
    IN  IF i = 0 THEN Append(kept, entry) ELSE [kept EXCEPT ![i] = entry]

\* SemanticCache.set at time t
SemanticCache_set(cache, market1Id, market2Id, result, t) ==
    SemanticCache_setAt(llmConfig.maxCacheSize, cache, market1Id, market2Id,
                        result, t)

\* SemanticCache.has at time t: the cache afterwards and the answer
SemanticCache_has(cache, market1Id, market2Id, t) ==
    LET i == CacheIndex(cache, generateKey(market1Id, market2Id)) IN
    IF i = 0 THEN [cache |-> cache, result |-> FALSE]
    ELSE IF t - cache[i].cachedAt > llmConfig.cacheTtlMs
         THEN [cache |-> RemoveAt(cache, i), result |-> FALSE]
         ELSE [cache |-> cache, result |-> TRUE]

\* SemanticCache.cleanup at time t
SemanticCache_cleanup(cache, t) ==
    SelectSeq(cache, LAMBDA e : ~(t - e.cachedAt > llmConfig.cacheTtlMs))

\* shouldSkipPair: the cache afterwards and the answer
shouldSkipPair(cache, market1Id, market2Id, t) ==
    LET g == SemanticCache_get(cache, market1Id, market2Id, t)
    IN  [cache |-> g.cache, skip |-> g.result.relationshipType = "none"]

RECURSIVE findCandidatePairs(_, _, _, _)
\* findCandidatePairs over the pairs still to look at
findCandidatePairs(pairs, cache, t, found) ==
    IF pairs = <<>> THEN [cache |-> cache, pairs |-> found]
    ELSE LET s == shouldSkipPair(cache, Head(pairs)[1], Head(pairs)[2], t)
         IN  findCandidatePairs(Tail(pairs), s.cache, t,
                                IF s.skip THEN found
                                ELSE Append(found, Head(pairs)))

\* what llmClient.chat can settle to: a thrown error, or the content of the
\* reply: whether it holds a {...} block, whether that block is valid JSON,
\* its relationship_type ("" when missing), whether its confidence is a
\* number, that confidence, and whether it has constraint and direction
Response(kind, match, valid, relationshipType, isNumber, confidence, actionable) ==
    [kind |-> kind, match |-> match, valid |-> valid,
     relationship_type |-> relationshipType, confidenceIsNumber |-> isNumber,
     confidence |-> confidence, actionable |-> actionable]

NoResponse == Response("none", FALSE, FALSE, "", FALSE, 0, FALSE)

ChatError == Response("error", FALSE, FALSE, "", FALSE, 0, FALSE)

Replies ==
    {Response("reply", FALSE, FALSE, "", FALSE, 0, FALSE),       \* no JSON
     Response("reply", TRUE, FALSE, "", FALSE, 0, FALSE),        \* invalid
     Response("reply", TRUE, TRUE, "", TRUE, 90, TRUE),          \* no type
     Response("reply", TRUE, TRUE, "subset", FALSE, 0, TRUE),    \* no number
     Response("reply", TRUE, TRUE, "none", TRUE, 90, FALSE),
     Response("reply", TRUE, TRUE, "subset", TRUE, 90, TRUE)}

\* parseAnalysisResponse: NoResponse stands for null
parseAnalysisResponse(response) ==
    IF ~response.match THEN NoResponse
    ELSE IF ~response.valid THEN NoResponse
    ELSE IF response.relationship_type = "" \/ ~response.confidenceIsNumber
         THEN NoResponse
    ELSE response

\* the relationship types an opportunity can be emitted for
RelationshipTypes ==
    {"subset", "superset", "mutual_exclusion", "logical_bound",
     "nested_target", "temporal"}

\* String.prototype.toLowerCase on the relationship types of the replies
toLowerCase(type) ==
    CASE type = "None" -> "none"
      [] type = "NONE" -> "none"
      [] type = "Subset" -> "subset"
      [] type = "TEMPORAL" -> "temporal"
      [] OTHER -> type

\* mapRelationshipType: mapping[type.toLowerCase()] || 'none', where mapping
\* is an object literal, whose "constructor" is the function Object
mapRelationshipType(type) ==
    IF toLowerCase(type) \in RelationshipTypes \cup {"none"}
    THEN toLowerCase(type)
    ELSE IF toLowerCase(type) = "constructor" THEN "function Object"
    ELSE "none"

\* createOpportunity returns an opportunity: the confidence reaches the
\* threshold and the analysis has a constraint and a direction (the two
\* markets' prices violate the constraint by enough)
createOpportunity(analysis) ==
    /\ analysis.confidence >= llmConfig.minConfidenceThreshold
    /\ analysis.actionable

\* LLMClient.stats as constructed at time t (the counters nothing reads are
\* left out)
NewLLMStats(t) == [requestsThisMinute |-> 0, lastResetTime |-> t]

\* waitForRateLimit at time t, up to its sleep or its return
waitForRateLimit(stats, t) ==
    LET s == IF t - stats.lastResetTime >= RateWindowMs
             THEN [requestsThisMinute |-> 0, lastResetTime |-> t]
             ELSE stats
    IN  IF s.requestsThisMinute >= llmConfig.rateLimitPerMinute
        THEN [stats |-> s, sleep |-> TRUE,
              wakeAt |-> t + RateWindowMs - (t - s.lastResetTime)]
        ELSE [stats |-> s, sleep |-> FALSE, wakeAt |-> 0]

\* an activation of SemanticDependencyDetector.detect: idle (with the
\* opportunities of its last run), asleep in waitForRateLimit, or awaiting
\* the reply to the request for the first of its remaining pairs
IdleSem == [pc |-> "idle", pairs |-> <<>>, opportunities |-> <<>>,
            wakeAt |-> 0, response |-> NoResponse]

\* the request sent for a pair at time t
Request(pair, t) == [pair |-> generateKey(pair[1], pair[2]), at |-> t]

RECURSIVE analyzeFrom(_, _, _, _, _)
\* the loop of detect from the head of an iteration to its next sleep or
\* request, or to its end
analyzeFrom(cache, stats, pairs, opps, t) ==
    IF pairs = <<>>
    THEN [cache |-> cache, stats |-> stats, sent |-> <<>>,
          act |-> [IdleSem EXCEPT !.opportunities = opps]]
    ELSE LET g == SemanticCache_get(cache, Head(pairs)[1], Head(pairs)[2], t)
             w == waitForRateLimit(stats, t)
         IN  IF g.result # NoAnalysis
             THEN analyzeFrom(g.cache, stats, Tail(pairs),
                              IF createOpportunity(g.result)
                              THEN Append(opps, Head(pairs)) ELSE opps, t)
             ELSE [cache |-> g.cache, stats |-> w.stats,
                   sent |-> IF w.sleep THEN <<>>
                            ELSE <<Request(Head(pairs), t)>>,
                   act |-> [pc |-> IF w.sleep THEN "wait" ELSE "post",
                            pairs |-> pairs, opportunities |-> opps,
                            wakeAt |-> w.wakeAt, response |-> NoResponse]]

\* analyzeMarketPair after llmClient.chat settled: the cache, the counters
\* and the opportunities of the run
analyzed(cache, stats, pair, opps, response, t) ==
    IF response.kind = "error"
    THEN [cache |-> cache, stats |-> stats, opps |-> opps]
    ELSE LET counted == [stats EXCEPT !.requestsThisMinute = @ + 1]
             parsed == parseAnalysisResponse(response)
             result == Analysis(mapRelationshipType(parsed.relationship_type),
                                parsed.confidence, parsed.actionable)
         IN  IF parsed = NoResponse \/ parsed.relationship_type = "none"
             THEN [cache |-> SemanticCache_set(cache, pair[1], pair[2],
                                               NegativeResult, t),
                   stats |-> counted, opps |-> opps]
             ELSE [cache |-> SemanticCache_set(cache, pair[1], pair[2],
                                               result, t),
                   stats |-> counted,
                   opps |-> IF createOpportunity(result)
                            THEN Append(opps, pair) ELSE opps]

LLMSlots == 1..MaxLLMOverlap

LLMInit ==
    /\ llmStats = NewLLMStats(0)
    /\ semCache = <<>>
    /\ requests = <<>>
    /\ sem = [s \in LLMSlots |-> IdleSem]

----------------------------------------------------------------------------
(* ArbitrageRunner: start() and the activations of runDetectionCycle *)

\* an activation: its position, its cycle number, its newOpportunities and
\* loop index, and inside expireOldOpportunities the keys still to delete,
\* the time of the call, the last-seen times the call found and the id
\* passed to the pending updateOpportunityStatus
IdleCyc == [pc |-> "idle", no |-> 0, newOpps |-> <<>>, idx |-> 0,
            expired |-> <<>>, expAt |-> 0, expSeen |-> EmptyMap,
            pendingId |-> NoId]

\* arbConfig.enabledTypes of the runner: ARB_ENABLE_NEGRISK=false,
\* ARB_ENABLE_RELATED_MARKET=false, semantic dependency left off
RunnerEnabled == {"multiOutcome", "crossMarket"}

NoOutcomes == [d \in DetectorSet |-> Rejected]

NoResult == [status |-> "none", opportunities |-> <<>>]

NoRiskCheck == [opportunity |-> NoOpp, orderSizeUsd |-> 0, approved |-> FALSE,
                reason |-> "", checks |-> <<>>]

\* the executors as constructed, and with the RiskManager constructed at t
ExecutorsInit ==
    /\ riskCheck = NoRiskCheck
    /\ state = NewSimulationState
    /\ lastResult = NoExecution
    /\ executionsAttempted = 0
    /\ simExec = <<>>
    /\ bankroll = StartingBankroll
    /\ peakBalance = StartingBankroll
    /\ maxDrawdown = 0
    /\ tradeIdCounter = 0
    /\ trades = <<>>
    /\ paperExec = [s \in 1..MaxPaperOverlap |-> IdlePaper]

ExecInit(t) ==
    /\ localRiskManager = NewRiskManager(t)
    /\ ExecutorsInit

\* an engine that tracks nothing and a runner that is not started
EngineInit ==
    /\ trackedOpportunities = EmptyMap
    /\ trackedOrder = <<>>
    /\ persisted = EmptyMap
    /\ dbErrors = {}
    /\ isRunning = FALSE
    /\ exited = FALSE
    /\ detectionInterval = FALSE
    /\ cyclesRun = 0
    /\ cyc = [s \in Slots |-> IdleCyc]
    /\ enabledTypes = RunnerEnabled
    /\ detOutcomes = NoOutcomes
    /\ detectResult = NoResult
    /\ LLMInit
    /\ call = NoCall

Init ==
    /\ now = 0
    /\ ExecInit(0)
    /\ trackedOpportunities = EmptyMap
    /\ trackedOrder = <<>>
    /\ persisted = EmptyMap
    /\ dbErrors = {}
    /\ isRunning = TRUE
    /\ exited = FALSE
    /\ detectionInterval = FALSE
    /\ cyclesRun = 0
    /\ cyc = [s \in Slots |-> IdleCyc]
    /\ enabledTypes = RunnerEnabled
    /\ detOutcomes = NoOutcomes
    /\ detectResult = NoResult
    /\ LLMInit
    /\ call = NoCall

\* the clock advances
Tick ==
    /\ now < MaxTicks * TickMs
    /\ now' = now + TickMs
    /\ UNCHANGED <<pureVars, llmVars, engineVars, dbVars, runnerVars, detectVars, execVars>>

\* runDetectionCycle up to its first await (fetchActiveMarkets)
BeginCycle(s) ==
    /\ isRunning
    /\ cyc[s].pc = "idle"
    /\ cyclesRun < MaxCycles
    /\ cyclesRun' = cyclesRun + 1
    /\ cyc' = [cyc EXCEPT ![s] = [IdleCyc EXCEPT !.pc = "fetch",
                                                 !.no = cyclesRun + 1]]
    /\ UNCHANGED <<pureVars, llmVars, now, engineVars, dbVars, isRunning, exited, detectionInterval,
                   detectVars, execVars>>

\* start(): await this.runDetectionCycle() before the timer is installed
StartFirstCycle ==
    /\ ~detectionInterval
    /\ cyclesRun = 0
    /\ BeginCycle(1)

\* the setInterval callback: () => this.runDetectionCycle()
TimerFire(s) ==
    /\ detectionInterval
    /\ \A r \in Slots : r < s => cyc[r].pc # "idle"
    /\ BeginCycle(s)

\* the activation c returns; start() installs the timer after the first one
Installed(c) == detectionInterval \/ c.no = 1

\* fetchActiveMarkets settles: no markets (or a throw) ends the cycle,
\* otherwise engine.detect is called and awaits its detectors
FetchDone(s) ==
    /\ cyc[s].pc = "fetch"
    /\ \E fetched \in {"none", "some"} :
         IF fetched = "none"
         THEN /\ cyc' = [cyc EXCEPT ![s] = IdleCyc]
              /\ detectionInterval' = Installed(cyc[s])
         ELSE /\ cyc' = [cyc EXCEPT ![s].pc = "detect"]
              /\ UNCHANGED detectionInterval
    /\ UNCHANGED <<pureVars, llmVars, now, engineVars, dbVars, isRunning, exited, cyclesRun, detectVars, execVars>>

\* expireOldOpportunities from its call to its first await or its end
ExpireFrom(c, tracked, order) ==
    LET r == expireLoop(expiredKeys(tracked, order, now), tracked, order, {})
    IN  [tracked |-> r.tracked, order |-> r.order,
         finished |-> r.keys = <<>>,
         cyc |-> IF r.keys = <<>> THEN IdleCyc
                 ELSE [c EXCEPT !.pc = "expire", !.expired = r.keys,
                          !.expAt = now,
                          !.expSeen = [k \in Range(r.keys) |->
                                         tracked[k].lastSeenAt],
                          !.pendingId = r.tracked[Head(r.keys)].opportunity.id]]

\* the outcomes the detectors of one cycle can have
DetectorOutcomes(enabled) ==
    {[d \in DetectorSet |->
        CASE d = "multiOutcome" -> a
          [] d = "negRisk" -> b
          [] d = "crossMarket" -> c
          [] d = "relatedMarket" -> e
          [] OTHER -> f] :
     a \in IF "multiOutcome" \in enabled
           THEN DetectorPromises("multiOutcome") ELSE {Rejected},
     b \in IF "negRisk" \in enabled
           THEN DetectorPromises("negRisk") ELSE {Rejected},
     c \in IF "crossMarket" \in enabled
           THEN DetectorPromises("crossMarket") ELSE {Rejected},
     e \in IF "relatedMarket" \in enabled
           THEN DetectorPromises("relatedMarket") ELSE {Rejected},
     f \in IF "semanticDependency" \in enabled
           THEN DetectorPromises("semanticDependency") ELSE {Rejected}}

\* the activation reaches expireOldOpportunities with the tracking map
\* (tracked, order) and runs to the call's first await or to its return
CallExpire(s, tracked, order) ==
    \E x \in {ExpireFrom(cyc[s], tracked, order)} :
       /\ trackedOpportunities' = x.tracked
       /\ trackedOrder' = x.order
       /\ cyc' = [cyc EXCEPT ![s] = x.cyc]
       /\ detectionInterval' =
            IF x.finished THEN Installed(cyc[s]) ELSE detectionInterval

\* the detectors settle: engine.detect merges, dedupes and updates the
\* tracking map; the cycle goes on with getNewOpportunities and runs up to
\* its next await (the first saveOpportunity, or inside expireOldOpportunities)
DetectDone(s) ==
    /\ cyc[s].pc = "detect"
    /\ \E outcomes \in DetectorOutcomes(enabledTypes) :
       \E r \in {detect(outcomes, enabledTypes, trackedOpportunities,
                        trackedOrder, now, cyc[s].no)} :
       \E fresh \in {getNewOpportunities(r.tracked, r.opportunities)} :
         IF r.status = "rejected"
         THEN /\ cyc' = [cyc EXCEPT ![s] = IdleCyc]
              /\ detectionInterval' = Installed(cyc[s])
              /\ UNCHANGED engineVars
         ELSE IF fresh # <<>>
              THEN /\ trackedOpportunities' = r.tracked
                   /\ trackedOrder' = r.order
                   /\ cyc' = [cyc EXCEPT ![s].pc = "save",
                                         ![s].newOpps = fresh,
                                         ![s].idx = 1]
                   /\ UNCHANGED detectionInterval
              ELSE CallExpire(s, r.tracked, r.order)
    /\ UNCHANGED <<pureVars, llmVars, now, dbVars, isRunning, exited, cyclesRun, detectVars, execVars>>

\* opp.id = id reaches every holder of that object
SetId(tracked, opp, id) ==
    LET key == getOpportunityKey(opp) IN
    IF key \in DOMAIN tracked /\ tracked[key].opportunity.obj = opp.obj
    THEN [tracked EXCEPT ![key].opportunity.id = id]
    ELSE tracked

\* one iteration of the save loop: arbitrageRepo.saveOpportunity settles
SaveDone(s) ==
    /\ cyc[s].pc = "save"
    /\ LET c == cyc[s]
           opp == c.newOpps[c.idx]
           id == Cardinality(DOMAIN persisted) + 1
           more == c.idx < Len(c.newOpps)
       IN  \E outcome \in {"saved", "failed"} :
             /\ IF outcome = "saved"
                THEN /\ persisted' = MapSet(persisted, id,
                            [status |-> "active", type |-> opp.type,
                             market1Id |-> opp.market1Id,
                             market2Id |-> opp.market2Id,
                             profitPercent |-> opp.profitPercent])
                     /\ trackedOpportunities' =
                            SetId(trackedOpportunities, opp, id)
                     /\ cyc' = [cyc EXCEPT
                            ![s].newOpps[c.idx].id = id,
                            ![s].idx = IF more THEN c.idx + 1 ELSE 1,
                            ![s].pc = IF more THEN "save" ELSE "process"]
                ELSE /\ UNCHANGED <<persisted, trackedOpportunities>>
                     /\ cyc' = [cyc EXCEPT
                            ![s].idx = IF more THEN c.idx + 1 ELSE 1,
                            ![s].pc = IF more THEN "save" ELSE "process"]
    /\ UNCHANGED <<pureVars, llmVars, now, trackedOrder, dbErrors, isRunning, exited, detectionInterval,
                   cyclesRun, detectVars, execVars>>

\* the process loop (alert and execution of each new opportunity, which
\* touch neither the tracking map nor the opportunities table) has settled
\* for the last opportunity; expireOldOpportunities is called
ProcessDone(s) ==
    /\ cyc[s].pc = "process"
    /\ CallExpire(s, trackedOpportunities, trackedOrder)
    /\ UNCHANGED <<pureVars, llmVars, now, dbVars, isRunning, exited, cyclesRun, detectVars, execVars>>

\* arbitrageRepo.updateOpportunityStatus(id, 'expired') settles inside
\* expireOldOpportunities; the key is deleted and the loop goes on
ExpireAwaitDone(s) ==
    /\ cyc[s].pc = "expire"
    /\ LET c == cyc[s]
           key == Head(c.expired)
       IN  \E r \in {expireLoop(Tail(c.expired),
                                MapDelete(trackedOpportunities, key),
                                Without(trackedOrder, key), {})} :
           /\ \E outcome \in {"updated", "failed"} :
                IF outcome = "updated"
                THEN /\ persisted' = IF c.pendingId \in DOMAIN persisted
                                     THEN [persisted EXCEPT
                                             ![c.pendingId].status = "expired"]
                                     ELSE persisted
                     /\ UNCHANGED dbErrors
                ELSE /\ dbErrors' = dbErrors \cup {c.pendingId}
                     /\ UNCHANGED persisted
           /\ trackedOpportunities' = r.tracked
           /\ trackedOrder' = r.order
           /\ cyc' = [cyc EXCEPT ![s] =
                        IF r.keys = <<>> THEN IdleCyc
                        ELSE [c EXCEPT !.expired = r.keys,
                                 !.pendingId =
                                    r.tracked[Head(r.keys)].opportunity.id]]
           /\ detectionInterval' =
                IF r.keys = <<>> THEN Installed(c) ELSE detectionInterval
    /\ UNCHANGED <<pureVars, llmVars, now, isRunning, exited, cyclesRun, detectVars, execVars>>

Next ==
    \/ Tick
    \/ StartFirstCycle
    \/ \E s \in Slots : TimerFire(s)
    \/ \E s \in Slots : FetchDone(s)
    \/ \E s \in Slots : DetectDone(s)
    \/ \E s \in Slots : SaveDone(s)
    \/ \E s \in Slots : ProcessDone(s)
    \/ \E s \in Slots : ExpireAwaitDone(s)

Spec == Init /\ [][Next]_vars

\* a timer tick that arrives when no cycle is in progress
TimerFireIdle ==
    /\ \A s \in Slots : cyc[s].pc = "idle"
    /\ TimerFire(1)

\* the runs in which every cycle ends before the next timer tick
NextSeq ==
    \/ Tick
    \/ StartFirstCycle
    \/ TimerFireIdle
    \/ \E s \in Slots : FetchDone(s)
    \/ \E s \in Slots : DetectDone(s)
    \/ \E s \in Slots : SaveDone(s)
    \/ \E s \in Slots : ProcessDone(s)
    \/ \E s \in Slots : ExpireAwaitDone(s)

SpecSeq == Init /\ [][NextSeq]_vars

----------------------------------------------------------------------------
(* ArbitrageEngine.detect for every configuration and detector outcome *)

InitDetect ==
    /\ now = 0
    /\ ExecInit(0)
    /\ trackedOpportunities = EmptyMap
    /\ trackedOrder = <<>>
    /\ persisted = EmptyMap
    /\ dbErrors = {}
    /\ isRunning = FALSE
    /\ exited = FALSE
    /\ detectionInterval = FALSE
    /\ cyclesRun = 0
    /\ cyc = [s \in Slots |-> IdleCyc]
    /\ enabledTypes \in SUBSET DetectorSet
    /\ detOutcomes \in DetectorOutcomes(enabledTypes)
    /\ detectResult = NoResult
    /\ LLMInit
    /\ call = NoCall

\* engine.detect(markets) with the detectors settling as detOutcomes says
EngineDetect ==
    /\ detectResult.status = "none"
    /\ \E r \in {detect(detOutcomes, enabledTypes, trackedOpportunities,
                        trackedOrder, now, 0)} :
          /\ detectResult' = [status |-> r.status,
                              opportunities |-> r.opportunities]
          /\ trackedOpportunities' = r.tracked
          /\ trackedOrder' = r.order
    /\ UNCHANGED <<pureVars, llmVars, now, dbVars, runnerVars, enabledTypes, detOutcomes,
                   execVars>>

NextDetect == EngineDetect

SpecDetect == InitDetect /\ [][NextDetect]_vars

----------------------------------------------------------------------------
(* The tracking map over many detection cycles *)

\* the detection interval of this run (ARB_DETECTION_INTERVAL_MS): 2 minutes
TrackIntervalMs == 2 * 60 * 1000

\* the record of the detect calls made so far: for each call its time, the
\* spread of every opportunity it returned by key, and the keys the
\* expireOldOpportunities call of the same cycle deleted
Log == IF call.fn = "ArbitrageEngine.detect" THEN call.detections ELSE <<>>

\* what the detectors of cycle n find: nothing, the m1 spread, or the m1
\* spread and the m1/m2 price difference; the profit differs in every cycle
TrackOutcomes(n) ==
    {[NoOutcomes EXCEPT !["multiOutcome"] = Fulfilled(<<>>),
                        !["crossMarket"] = Fulfilled(<<>>)],
     [NoOutcomes EXCEPT
        !["multiOutcome"] =
            Fulfilled(<<Opp("multi_outcome", "", "m1", "", 100 + n)>>),
        !["crossMarket"] = Fulfilled(<<>>)],
     [NoOutcomes EXCEPT
        !["multiOutcome"] =
            Fulfilled(<<Opp("multi_outcome", "", "m1", "", 100 + n)>>),
        !["crossMarket"] =
            Fulfilled(<<Opp("cross_market", "", "m1", "m2", 300 + n)>>)]}

\* the spread of each opportunity of a deduplicated list, by its key
SpreadsByKey(opps) ==
    [k \in {getOpportunityKey(opps[i]) : i \in 1..Len(opps)} |->
        opps[CHOOSE i \in 1..Len(opps) : getOpportunityKey(opps[i]) = k].spread]

InitTrack ==
    /\ now = 0
    /\ ExecInit(0)
    /\ EngineInit

\* one detection cycle, a detection interval after the last: engine.detect
\* updates the tracking map, then expireOldOpportunities deletes the entries
\* not seen for 5 minutes (no opportunity has a database id here, so the
\* call does not await)
TrackCycle ==
    /\ Len(Log) < MaxTrackCycles
    /\ now' = now + TrackIntervalMs
    /\ \E outcomes \in TrackOutcomes(Len(Log) + 1) :
       \E r \in {detect(outcomes, enabledTypes, trackedOpportunities,
                        trackedOrder, now', Len(Log) + 1)} :
       \E x \in {expireLoop(expiredKeys(r.tracked, r.order, now'),
                            r.tracked, r.order, {})} :
          /\ trackedOpportunities' = x.tracked
          /\ trackedOrder' = x.order
          /\ call' = [fn |-> "ArbitrageEngine.detect",
                      detections |-> Append(Log,
                         [t |-> now',
                          spreads |-> SpreadsByKey(r.opportunities),
                          expired |-> x.removed])]
    /\ UNCHANGED <<llmVars, dbVars, runnerVars, detectVars, execVars>>

NextTrack == TrackCycle

SpecTrack == InitTrack /\ [][NextTrack]_vars

----------------------------------------------------------------------------

(* RiskManager.updateAfterExecution over every sequence of executions *)

InitPositions ==
    /\ now = 0
    /\ ExecInit(0)
    /\ EngineInit

\* the updateAfterExecution calls made so far
Updates == IF call.fn = "RiskManager.updateAfterExecution" THEN call.no ELSE 0

\* the filled sizes of a first leg: SimulationExecutor passes the order size
\* or half of it, and the runner sends no order below $10
FilledSizes == {50, 100}

\* localRiskManager.updateAfterExecution(marketId, side, sizeUsd, price, pnl)
UpdateAfterExecution(marketId, side, sizeUsd, pnl) ==
    /\ Updates < MaxUpdates
    /\ localRiskManager' =
          updateAfterExecution(localRiskManager, marketId, side, sizeUsd,
                               pnl, now)
    /\ call' = [fn |-> "RiskManager.updateAfterExecution",
                marketId |-> marketId, side |-> side, sizeUsd |-> sizeUsd,
                no |-> Updates + 1]
    /\ UNCHANGED <<llmVars, now, engineVars, dbVars, runnerVars, detectVars,
                   riskCheck, simVars, paperVars>>

NextPositions ==
    \E marketId \in Markets : \E side \in {"BUY", "SELL"} :
    \E sizeUsd \in FilledSizes : \E pnl \in {-40, 5} :
        UpdateAfterExecution(marketId, side, sizeUsd, pnl)

SpecPositions == InitPositions /\ [][NextPositions]_vars

----------------------------------------------------------------------------

(* The executors as the runners drive them *)

\* granularity of the clock: half the trade cooldown
ExecTickMs == arbConfig.risk.tradeCooldownMs \div 2

\* the process starts two ticks before a UTC midnight
RunStart == DayMs - 2 * ExecTickMs

InitExec ==
    /\ now = RunStart
    /\ EngineInit
    /\ ExecInit(RunStart)

\* the clock advances
TickExec ==
    /\ now < RunStart + MaxExecTicks * ExecTickMs
    /\ now' = now + ExecTickMs
    /\ UNCHANGED <<pureVars, llmVars, engineVars, dbVars, runnerVars, detectVars, execVars>>

PaperSlots == 1..MaxPaperOverlap

\* the execute calls made so far on the two executors
ExecuteCalls ==
    executionsAttempted + tradeIdCounter
      + Cardinality({s \in PaperSlots : paperExec[s].pc # "idle"})

\* ArbitrageRunner.executeOpportunity(opp): sizes the order and awaits
\* simulationExecutor.execute, which runs from its risk check to the update
\* of its state and of its RiskManager without yielding to another task, and
\* then saves the result
ExecuteOpportunity(opp) ==
    /\ ExecuteCalls < MaxExecs
    /\ executionsAttempted' = executionsAttempted + 1
    /\ UNCHANGED simExec
    /\ \E sizeUsd \in {RunnerSizeUsd(state)} :
          IF sizeUsd < 10
          THEN UNCHANGED <<localRiskManager, riskCheck, state, lastResult>>
          ELSE \E pnl \in PnLs(opp.type) : \E saved \in BOOLEAN :
               \E x \in {SimulationExecutor_execute(localRiskManager, state,
                                                   opp, sizeUsd, now, pnl,
                                                   saved)} :
                  /\ localRiskManager' = x.rm
                  /\ state' = x.state
                  /\ riskCheck' = [opportunity |-> opp,
                                   orderSizeUsd |-> sizeUsd,
                                   approved |-> x.riskCheck.approved,
                                   reason |-> x.riskCheck.reason,
                                   checks |-> x.riskCheck.checks]
                  /\ lastResult' = x.result
    /\ UNCHANGED <<pureVars, llmVars, now, engineVars, dbVars, runnerVars, detectVars, paperVars>>

\* DashboardServer.detectArbitrage awaits paperTradingExecutor.execute(opp):
\* the call sizes the position, deducts it from the bankroll and sleeps
PaperTradingExecutor_execute(s, opp) ==
    /\ ExecuteCalls < MaxExecs
    /\ paperExec[s].pc = "idle"
    /\ \A r \in PaperSlots : r < s => paperExec[r].pc # "idle"
    /\ \E positionSize \in {calculatePositionSize(bankroll, opp)} :
          IF positionSize <= 0
          THEN UNCHANGED <<bankroll, paperExec>>
          ELSE /\ bankroll' = bankroll - positionSize
               /\ paperExec' = [paperExec EXCEPT ![s] =
                    [pc |-> "sleep", opportunity |-> opp,
                     positionSize |-> positionSize,
                     kellyFraction |->
                        calculateKellyFraction(opp.confidenceScore,
                                               opp.profitPercent)]]
    /\ UNCHANGED <<llmVars, now, engineVars, dbVars, runnerVars, detectVars,
                   riskVars, simVars, peakBalance, maxDrawdown,
                   tradeIdCounter, trades>>

PaperExecute(s, opp) ==
    /\ PaperTradingExecutor_execute(s, opp)
    /\ UNCHANGED pureVars

\* the execution delay is over: the call simulates the CLOB execution,
\* settles the bankroll, updates peak and drawdown and records the trade
PaperSettle(s) ==
    /\ paperExec[s].pc = "sleep"
    /\ \E executionResult \in CLOBExecutions :
       \E r \in {settle(bankroll, paperExec[s].positionSize,
                        paperExec[s].opportunity, executionResult)} :
       \E peak \in {Max(peakBalance, r.bankroll)} :
          /\ bankroll' = r.bankroll
          /\ peakBalance' = peak
          /\ maxDrawdown' = Max(maxDrawdown, Drawdown(peak, r.bankroll))
          /\ tradeIdCounter' = tradeIdCounter + 1
          /\ trades' = Append(trades,
                [id |-> tradeIdCounter + 1,
                 opportunityType |-> paperExec[s].opportunity.type,
                 positionSize |-> paperExec[s].positionSize,
                 kellyFraction |-> paperExec[s].kellyFraction,
                 realizedProfit |-> r.realizedProfit,
                 leg1Status |-> IF executionResult.leg1Failed THEN "failed"
                                ELSE IF executionResult.fillRate < 100
                                     THEN "partial" ELSE "filled",
                 slippageBps |-> executionResult.totalSlippageBps,
                 balanceAfter |-> r.bankroll,
                 success |-> r.success,
                 failureReason |-> r.failureReason])
    /\ paperExec' = [paperExec EXCEPT ![s] = IdlePaper]
    /\ UNCHANGED <<pureVars, llmVars, now, engineVars, dbVars, runnerVars, detectVars, riskVars,
                   simVars>>

NextExec ==
    \/ TickExec
    \/ \E opp \in RunnerOpps : ExecuteOpportunity(opp)
    \/ \E s \in PaperSlots : \E opp \in PaperOpps : PaperExecute(s, opp)
    \/ \E s \in PaperSlots : PaperSettle(s)

SpecExec == InitExec /\ [][NextExec]_vars

----------------------------------------------------------------------------
(* PaperTradingExecutor.execute for every starting bankroll *)

\* new PaperTradingExecutor(startingBankroll), in mills: just below $10,
\* $10 and $100
PaperBankrolls == {9999, 10000, 100000}

InitPaper ==
    /\ now = RunStart
    /\ EngineInit
    /\ localRiskManager = NewRiskManager(RunStart)
    /\ riskCheck = NoRiskCheck
    /\ state = NewSimulationState
    /\ lastResult = NoExecution
    /\ executionsAttempted = 0
    /\ simExec = <<>>
    /\ bankroll \in PaperBankrolls
    /\ peakBalance = bankroll
    /\ maxDrawdown = 0
    /\ tradeIdCounter = 0
    /\ trades = <<>>
    /\ paperExec = [s \in 1..MaxPaperOverlap |-> IdlePaper]

\* paperTradingExecutor.execute(opp) up to its return of null or to its
\* execution delay; the call is numbered
PaperExecuteCall(s, opp) ==
    /\ PaperTradingExecutor_execute(s, opp)
    /\ call' = [fn |-> "PaperTradingExecutor.execute", opportunity |-> opp,
                no |-> ExecuteCalls + 1,
                returned |-> IF calculatePositionSize(bankroll, opp) <= 0
                             THEN "null" ELSE "pending"]

NextPaper ==
    \/ TickExec
    \/ \E s \in PaperSlots : \E opp \in PaperOpps : PaperExecuteCall(s, opp)
    \/ \E s \in PaperSlots : PaperSettle(s)

SpecPaper == InitPaper /\ [][NextPaper]_vars

----------------------------------------------------------------------------
(* PaperTradingExecutor.execute, each call awaited before the next *)

\* one activation at a time: the caller awaits each trade
NextPaperSeq ==
    \/ TickExec
    \/ \E opp \in PaperOpps : PaperExecuteCall(1, opp)
    \/ PaperSettle(1)

SpecPaperSeq == InitExec /\ [][NextPaperSeq]_vars

\* the executor constructed with $100, its activations free to overlap
SpecPaperOverlap == InitExec /\ [][NextPaper]_vars

----------------------------------------------------------------------------

(* RiskManager.checkPreExecution for every risk state and request *)

emergencyStopLossOnly(rm) == [rm EXCEPT !.limits.maxDailyLossUsd = 0]

emergencyStopClosing(rm) ==
    [rm EXCEPT !.limits.maxTotalExposureUsd = 0, !.limits.maxDailyLossUsd = 0,
               !.positions = EmptyMap, !.totalExposure = 0]

\* RiskManager.emergencyStop
emergencyStop(rm) ==
    [rm EXCEPT !.limits.maxTotalExposureUsd = 0, !.limits.maxDailyLossUsd = 0]

\* the position maps executions within the configured limits leave behind
PositionMaps ==
    {f \in UNION {[S -> {50, 100, 150}] : S \in SUBSET Markets} :
        SumAbs(f, DOMAIN f) <= arbConfig.risk.maxTotalExposureUsd}

\* the times of a check: before, at and after the midnight of the first day
CheckTimes == {DayMs - ExecTickMs, DayMs, DayMs + ExecTickMs}

\* the states a RiskManager can be in at time t
RiskStates(t) ==
    {[limits |-> l, positions |-> f, dailyPnL |-> pnl, dailyVolume |-> vol,
      lastTradeTime |-> last, totalExposure |-> SumAbs(f, DOMAIN f),
      dailyReset |-> reset] :
        l \in {NewRiskManager(0).limits, emergencyStop(NewRiskManager(0)).limits},
        f \in PositionMaps,
        pnl \in {-50, -40, 0, 5},
        vol \in {0, 100},
        last \in {0, t - 2 * ExecTickMs, t - ExecTickMs},
        reset \in {r \in {DayMs, 2 * DayMs} : r <= getNextMidnight(t)}}

\* a RiskManager that never traded has no position, P&L or volume
Traded(rm) == rm.lastTradeTime # 0

OrderSizes == {60, 100}

InitRisk ==
    /\ now \in CheckTimes
    /\ EngineInit
    /\ ExecutorsInit
    /\ \E rm \in RiskStates(now) :
          /\ Traded(rm) \/ (rm.positions = EmptyMap /\ rm.dailyPnL = 0
                            /\ rm.dailyVolume = 0)
          /\ localRiskManager = rm

\* localRiskManager.checkPreExecution(opportunity, orderSizeUsd)
CheckPreExecution(opportunity, orderSizeUsd) ==
    /\ riskCheck = NoRiskCheck
    /\ \E rc \in {checkPreExecution(localRiskManager, opportunity,
                                    orderSizeUsd, now)} :
          /\ localRiskManager' = rc.rm
          /\ riskCheck' = [opportunity |-> opportunity,
                           orderSizeUsd |-> orderSizeUsd,
                           approved |-> rc.approved,
                           reason |-> rc.reason,
                           checks |-> rc.checks]
    /\ UNCHANGED <<pureVars, llmVars, now, engineVars, dbVars, runnerVars, detectVars, simVars,
                   paperVars>>

NextRisk ==
    \E opportunity \in ExecOpps : \E orderSizeUsd \in OrderSizes :
        CheckPreExecution(opportunity, orderSizeUsd)

SpecRisk == InitRisk /\ [][NextRisk]_vars

----------------------------------------------------------------------------
(* A RiskManager over several UTC days *)

\* granularity of the clock: half a day, so that a check can fall exactly
\* on a UTC midnight
DayTickMs == DayMs \div 2

\* the RiskManager is constructed at noon of the first day
DayStart == DayTickMs

InitDay ==
    /\ now = DayStart
    /\ EngineInit
    /\ ExecInit(DayStart)

\* the requests made of the RiskManager: a two-market buy, a sale of both
\* outcomes of a market, and an opportunity on a market that is too thin
DayOpps ==
    {CrossMarketOpp("m1", 10000, 10000, 200, 80),
     MultiOutcomeOpp("m2", 10000, 200, "overpriced", 80),
     CrossMarketOpp("m1", 4000, 10000, 200, 80)}

TickDay ==
    /\ now < DayStart + MaxDayTicks * DayTickMs
    /\ now' = now + DayTickMs
    /\ UNCHANGED <<pureVars, llmVars, engineVars, dbVars, runnerVars, detectVars, execVars>>

\* checkPreExecution(opportunity, orderSizeUsd) on the RiskManager
DayCheck(opportunity, orderSizeUsd) ==
    /\ \E rc \in {checkPreExecution(localRiskManager, opportunity,
                                    orderSizeUsd, now)} :
          /\ localRiskManager' = rc.rm
          /\ riskCheck' = [opportunity |-> opportunity,
                           orderSizeUsd |-> orderSizeUsd,
                           approved |-> rc.approved,
                           reason |-> rc.reason,
                           checks |-> rc.checks]
    /\ UNCHANGED <<pureVars, llmVars, now, engineVars, dbVars, runnerVars, detectVars, simVars,
                   paperVars>>

\* updateAfterExecution for the execution the last check approved
DayUpdate ==
    /\ riskCheck.approved
    /\ localRiskManager.lastTradeTime # now
    /\ \E pnl \in PnLs(riskCheck.opportunity.type) :
          localRiskManager' =
             updateAfterExecution(localRiskManager,
                                  riskCheck.opportunity.market1Id,
                                  Leg1Side(riskCheck.opportunity),
                                  Leg1Filled(riskCheck.opportunity,
                                             riskCheck.orderSizeUsd),
                                  pnl, now)
    /\ UNCHANGED <<pureVars, llmVars, now, engineVars, dbVars, runnerVars, detectVars, riskCheck,
                   simVars, paperVars>>

\* emergencyStop() on the RiskManager
EmergencyStop ==
    /\ localRiskManager' = emergencyStop(localRiskManager)
    /\ UNCHANGED <<pureVars, llmVars, now, engineVars, dbVars, runnerVars, detectVars, riskCheck,
                   simVars, paperVars>>

NextDay ==
    \/ TickDay
    \/ \E opportunity \in DayOpps : \E orderSizeUsd \in OrderSizes :
          DayCheck(opportunity, orderSizeUsd)
    \/ DayUpdate
    \/ EmergencyStop

SpecDay == InitDay /\ [][NextDay]_vars

----------------------------------------------------------------------------
(* SimulationExecutor.execute with its await between check and update *)

\* the part of execute after "result = await this.executeMultiOutcome(...)"
\* or executeTwoLegged, resumed at time t: the result is complete, the state
\* and the RiskManager are updated and the result is saved
SimulationExecutor_resume(rm, st, opportunity, sizeUsd, t, pnl, saved) ==
    [rm |-> updateAfterExecution(rm, opportunity.market1Id,
                Leg1Side(opportunity), Leg1Filled(opportunity, sizeUsd),
                pnl, t),
     state |-> [st EXCEPT !.tradesSuccessful = @ + 1,
                          !.totalPnl = @ + pnl,
                          !.dailyPnl = @ + pnl,
                          !.balance = @ + pnl,
                          !.tradesExecuted = @ + 1,
                          !.lastTradeAt = t],
     result |-> [status |-> "complete", failureReason |-> "",
                 opportunity |-> opportunity, sizeUsd |-> sizeUsd,
                 side |-> Leg1Side(opportunity),
                 filledSize |-> Leg1Filled(opportunity, sizeUsd),
                 realizedProfitUsd |-> pnl,
                 id |-> IF saved THEN st.tradesExecuted + 1 ELSE NoId]]

\* the requests: buys and sales on the two markets
OverlapOpps ==
    {CrossMarketOpp(m, 10000, 10000, 200, 80) : m \in Markets}
    \cup {MultiOutcomeOpp("m1", 10000, 200, d, 80) :
             d \in {"underpriced", "overpriced"}}

\* simulationExecutor.execute({opportunity, sizeUsd}) up to its first await
\* or, if the risk check or the balance check fails, to its return
SimBegin(opportunity, sizeUsd) ==
    /\ executionsAttempted < MaxSimCalls
    /\ Len(simExec) < MaxSimOverlap
    /\ executionsAttempted' = executionsAttempted + 1
    /\ \E x \in {SimulationExecutor_execute(localRiskManager, state,
                                           opportunity, sizeUsd, now, 0,
                                           TRUE)} :
          /\ localRiskManager' = x.riskCheck.rm
          /\ riskCheck' = [opportunity |-> opportunity,
                           orderSizeUsd |-> sizeUsd,
                           approved |-> x.riskCheck.approved,
                           reason |-> x.riskCheck.reason,
                           checks |-> x.riskCheck.checks]
          /\ IF x.result.status = "failed"
             THEN /\ lastResult' = x.result
                  /\ UNCHANGED simExec
             ELSE /\ simExec' = Append(simExec,
                        [opportunity |-> opportunity, sizeUsd |-> sizeUsd,
                         approvedAt |-> now])
                  /\ UNCHANGED lastResult
    /\ UNCHANGED <<pureVars, llmVars, now, engineVars, dbVars, runnerVars,
                   detectVars, state, paperVars>>

\* the executions completed so far on the executor: time and realized P&L
Completions ==
    IF call.fn = "SimulationExecutor.execute" THEN call.completions ELSE <<>>

\* the call suspended first is resumed: its awaited promise was the first to
\* settle
SimResume ==
    /\ simExec # <<>>
    /\ \E pnl \in PnLs(Head(simExec).opportunity.type) : \E saved \in BOOLEAN :
       \E x \in {SimulationExecutor_resume(localRiskManager, state,
                     Head(simExec).opportunity, Head(simExec).sizeUsd, now,
                     pnl, saved)} :
          /\ localRiskManager' = x.rm
          /\ state' = x.state
          /\ lastResult' = x.result
          /\ call' = [fn |-> "SimulationExecutor.execute",
                      completions |->
                         Append(Completions, [at |-> now, pnl |-> pnl])]
    /\ simExec' = Tail(simExec)
    /\ UNCHANGED <<llmVars, now, engineVars, dbVars, runnerVars,
                   detectVars, riskCheck, executionsAttempted, paperVars>>

NextOverlap ==
    \/ TickExec
    \/ \E opportunity \in OverlapOpps : \E sizeUsd \in OrderSizes :
          SimBegin(opportunity, sizeUsd)
    \/ SimResume

SpecOverlap == InitExec /\ [][NextOverlap]_vars

----------------------------------------------------------------------------

(* Shutdown while the executors are driven *)

\* the bot is started and its executors are as constructed
InitStop ==
    /\ now = RunStart
    /\ ExecInit(RunStart)
    /\ trackedOpportunities = EmptyMap
    /\ trackedOrder = <<>>
    /\ persisted = EmptyMap
    /\ dbErrors = {}
    /\ isRunning = TRUE
    /\ exited = FALSE
    /\ detectionInterval = TRUE
    /\ cyclesRun = 0
    /\ cyc = [s \in Slots |-> IdleCyc]
    /\ enabledTypes = RunnerEnabled
    /\ detOutcomes = NoOutcomes
    /\ detectResult = NoResult
    /\ LLMInit
    /\ call = NoCall

\* stop(), run by the SIGINT / SIGTERM handler, up to its await of the
\* shutdown notification
Stop ==
    /\ ~exited
    /\ isRunning
    /\ isRunning' = FALSE
    /\ detectionInterval' = FALSE
    /\ UNCHANGED <<pureVars, llmVars, now, engineVars, dbVars, exited, cyclesRun, cyc,
                   detectVars, execVars>>

\* the notification settled: process.exit(0)
ProcessExit ==
    /\ ~exited
    /\ ~isRunning
    /\ exited' = TRUE
    /\ UNCHANGED <<pureVars, llmVars, now, engineVars, dbVars, isRunning, detectionInterval,
                   cyclesRun, cyc, detectVars, execVars>>

\* tasks run until the process exits; the cycle in flight when stop() is
\* called goes on, isRunning being read at the start of a cycle only
NextStop ==
    \/ ~exited /\ TickExec
    \/ ~exited /\ \E opp \in RunnerOpps : ExecuteOpportunity(opp)
    \/ ~exited /\ \E s \in PaperSlots : \E opp \in PaperOpps :
                     PaperExecute(s, opp)
    \/ ~exited /\ \E s \in PaperSlots : PaperSettle(s)
    \/ Stop
    \/ ProcessExit

SpecStop == InitStop /\ [][NextStop]_vars

----------------------------------------------------------------------------
(* SimulationExecutor.execute for every executor state and request *)

\* balances of the simulation: under an order's size, and as configured
SimBalances == {50, arbConfig.simulation.startingBalance}

\* the states a SimulationExecutor can be in, given its RiskManager
SimStates(rm) ==
    {[balance |-> b,
      startingBalance |-> arbConfig.simulation.startingBalance,
      totalPnl |-> b - arbConfig.simulation.startingBalance,
      dailyPnl |-> rm.dailyPnL,
      tradesExecuted |-> n, tradesSuccessful |-> n,
      lastTradeAt |-> rm.lastTradeTime] :
        b \in {x \in SimBalances :
                 Traded(rm) \/ x = arbConfig.simulation.startingBalance},
        n \in {IF Traded(rm) THEN 1 ELSE 0}}

InitSim ==
    /\ now \in CheckTimes
    /\ EngineInit
    /\ riskCheck = NoRiskCheck
    /\ lastResult = NoExecution
    /\ executionsAttempted = 0
    /\ simExec = <<>>
    /\ bankroll = StartingBankroll
    /\ peakBalance = StartingBankroll
    /\ maxDrawdown = 0
    /\ tradeIdCounter = 0
    /\ trades = <<>>
    /\ paperExec = [s \in 1..MaxPaperOverlap |-> IdlePaper]
    /\ \E rm \in RiskStates(now) :
          /\ Traded(rm) \/ (rm.positions = EmptyMap /\ rm.dailyPnL = 0
                            /\ rm.dailyVolume = 0)
          /\ rm.limits = NewRiskManager(0).limits
          /\ localRiskManager = rm
    /\ state \in SimStates(localRiskManager)

\* simulationExecutor.execute({opportunity, sizeUsd}) up to its return; the
\* save of the result succeeds or throws
SimExecute(opportunity, sizeUsd) ==
    /\ riskCheck = NoRiskCheck
    /\ \E pnl \in PnLs(opportunity.type) : \E saved \in BOOLEAN :
       \E x \in {SimulationExecutor_execute(localRiskManager, state,
                                           opportunity, sizeUsd, now, pnl,
                                           saved)} :
          /\ localRiskManager' = x.rm
          /\ state' = x.state
          /\ riskCheck' = [opportunity |-> opportunity,
                           orderSizeUsd |-> sizeUsd,
                           approved |-> x.riskCheck.approved,
                           reason |-> x.riskCheck.reason,
                           checks |-> x.riskCheck.checks]
          /\ lastResult' = x.result
    /\ UNCHANGED <<pureVars, llmVars, now, engineVars, dbVars, runnerVars, detectVars,
                   executionsAttempted, simExec, paperVars>>

NextSim ==
    \E opportunity \in DayOpps : \E sizeUsd \in OrderSizes :
        SimExecute(opportunity, sizeUsd)

SpecSim == InitSim /\ [][NextSim]_vars

----------------------------------------------------------------------------
(* The runs of the semantic detector *)

InitLLM ==
    /\ now = 0
    /\ ExecInit(0)
    /\ EngineInit

LLMTick ==
    /\ now < MaxLLMTicks * LLMTickMs
    /\ now' = now + LLMTickMs
    /\ UNCHANGED <<pureVars, llmVars, engineVars, dbVars, runnerVars, detectVars,
                   execVars>>

\* a detection cycle calls detect(markets) of the semantic detector, which
\* runs up to its first sleep or request
SemDetect(s) ==
    /\ sem[s].pc = "idle"
    /\ \A r \in LLMSlots : r < s => sem[r].pc # "idle"
    /\ Len(requests) < MaxRequests
    /\ \E f \in {findCandidatePairs(EntityPairs, semCache, now, <<>>)} :
       \E r \in {analyzeFrom(f.cache, llmStats, f.pairs, <<>>, now)} :
          /\ semCache' = r.cache
          /\ llmStats' = r.stats
          /\ requests' = requests \o r.sent
          /\ sem' = [sem EXCEPT ![s] = r.act]
    /\ UNCHANGED <<pureVars, now, engineVars, dbVars, runnerVars, detectVars,
                   execVars>>

\* the sleep of waitForRateLimit is over: the counter is zeroed and the
\* request is sent
SemWake(s) ==
    /\ sem[s].pc = "wait"
    /\ now >= sem[s].wakeAt
    /\ llmStats' = [requestsThisMinute |-> 0, lastResetTime |-> now]
    /\ requests' = Append(requests, Request(Head(sem[s].pairs), now))
    /\ sem' = [sem EXCEPT ![s].pc = "post", ![s].wakeAt = 0]
    /\ UNCHANGED <<pureVars, now, semCache, engineVars, dbVars, runnerVars, detectVars,
                   execVars>>

\* the request settles; the loop goes on to its next sleep or request
SemReply(s) ==
    /\ sem[s].pc = "post"
    /\ \E response \in Replies \cup {ChatError} :
       \E a \in {analyzed(semCache, llmStats, Head(sem[s].pairs),
                          sem[s].opportunities, response, now)} :
       \E r \in {analyzeFrom(a.cache, a.stats, Tail(sem[s].pairs), a.opps,
                             now)} :
          /\ semCache' = r.cache
          /\ llmStats' = r.stats
          /\ requests' = requests \o r.sent
          /\ sem' = [sem EXCEPT ![s] = [r.act EXCEPT !.response = response]]
    /\ UNCHANGED <<pureVars, now, engineVars, dbVars, runnerVars, detectVars,
                   execVars>>

NextLLM ==
    \/ LLMTick
    \/ \E s \in LLMSlots : SemDetect(s)
    \/ \E s \in LLMSlots : SemWake(s)
    \/ \E s \in LLMSlots : SemReply(s)

SpecLLM == InitLLM /\ [][NextLLM]_vars

----------------------------------------------------------------------------
(* The detectors on their own                                              *)
(* Prices and spreads are in 1/10000 (so a spread is also its percentage   *)
(* in hundredths of a point), confidence scores in 1/1000.                 *)

\* const POLYMARKET_FEE_PERCENT = 1.0
POLYMARKET_FEE_PERCENT == 100

\* arbConfig.minProfitThreshold (0.5) and arbConfig.minConfidence (0.7)
detectorConfig == [minProfitThreshold |-> 50, minConfidence |-> 700]

\* Math.max(0, Math.min(1, confidence))
Clamp01(confidence) == Max(0, Min(1000, confidence))

\* a MarketData as the detectors read it: currentPrices[0] (NO) and
\* currentPrices[1] (YES), 0 when missing; endDate 0 when missing
Market(id, liquidity, no, yes, volume, endDate, category) ==
    [id |-> id, liquidity |-> liquidity, no |-> no, yes |-> yes,
     volume |-> volume, endDate |-> endDate, category |-> category]

\* MultiOutcomeDetector.calculateConfidence at time t
MultiOutcome_calculateConfidence(market, spread, t) ==
    LET c0 == 500
        c1 == c0 + (IF market.liquidity >= 100000 THEN 250
                    ELSE IF market.liquidity >= 50000 THEN 150
                    ELSE IF market.liquidity >= 20000 THEN 100 ELSE 0)
        c2 == c1 - (IF spread > 500 THEN 300
                    ELSE IF spread > 300 THEN 150
                    ELSE IF spread > 200 THEN 50 ELSE 0)
        c3 == c2 + (IF market.volume >= 100000 THEN 100 ELSE 0)
        c4 == IF market.endDate = 0 THEN c3
              ELSE IF market.endDate - t < DayMs THEN c3 - 200
              ELSE IF market.endDate - t < 7 * DayMs THEN c3 - 50
              ELSE c3
    IN  Clamp01(c4)

\* null
NoOpportunity == [type |-> "null"]

\* MultiOutcomeDetector.analyzeMarket at time t
analyzeMarket(market, t) ==
    LET priceSum == market.yes + market.no
        spread == Max(10000 - priceSum, priceSum - 10000)
        netProfitPercent == spread - POLYMARKET_FEE_PERCENT
        confidence == MultiOutcome_calculateConfidence(market, spread, t)
    IN  IF market.liquidity < arbConfig.risk.minLiquidityUsd
        THEN NoOpportunity
        ELSE IF market.yes <= 0 \/ market.yes >= 10000
                \/ market.no <= 0 \/ market.no >= 10000
        THEN NoOpportunity
        ELSE IF netProfitPercent < detectorConfig.minProfitThreshold
        THEN NoOpportunity
        ELSE IF confidence < detectorConfig.minConfidence
        THEN NoOpportunity
        ELSE [type |-> "multi_outcome", subType |-> "",
              market1Id |-> market.id,
              market1Liquidity |-> market.liquidity,
              market2Liquidity |-> 0,
              legs |-> <<market.liquidity>>,
              spread |-> spread, profitPercent |-> netProfitPercent,
              confidenceScore |-> confidence]

\* the opportunities a loop pushes: the results that are not null, in order
IsOpportunity(o) == o # NoOpportunity

Pushed(results) == SelectSeq(results, IsOpportunity)

\* MultiOutcomeDetector.detect
MultiOutcome_detect(markets, t) ==
    SortByProfit(Pushed([i \in 1..Len(markets) |->
                            analyzeMarket(markets[i], t)]))

\* a NegRiskCondition
Condition(conditionId, yesPrice, liquidity) ==
    [conditionId |-> conditionId, yesPrice |-> yesPrice,
     liquidity |-> liquidity]

RECURSIVE SumYes(_)
SumYes(conditions) ==
    IF conditions = <<>> THEN 0
    ELSE Head(conditions).yesPrice + SumYes(Tail(conditions))

\* Math.min(...conditions.map(c => c.liquidity))
RECURSIVE MinOf(_)
MinOf(s) ==
    IF Len(s) = 1 THEN s[1] ELSE Min(Head(s), MinOf(Tail(s)))

LiquiditiesOf(conditions) ==
    [i \in 1..Len(conditions) |-> conditions[i].liquidity]

\* conditions.reduce((best, c) => c.liquidity > best.liquidity ? c : best)
RECURSIVE Primary(_, _)
Primary(best, conditions) ==
    IF conditions = <<>> THEN best
    ELSE Primary(IF Head(conditions).liquidity > best.liquidity
                 THEN Head(conditions) ELSE best, Tail(conditions))

\* NegRiskDetector.calculateConfidence
NegRisk_calculateConfidence(conditions, deviation, minLiq) ==
    LET n == Len(conditions)
        c0 == 500
        c1 == c0 + (IF n >= 10 THEN 150 ELSE IF n >= 5 THEN 100
                    ELSE IF n >= 3 THEN 50 ELSE 0)
        c2 == c1 + (IF minLiq >= 50000 THEN 200
                    ELSE IF minLiq >= 20000 THEN 100
                    ELSE IF minLiq >= 10000 THEN 50 ELSE 0)
        c3 == c2 - (IF deviation > 1000 THEN 300
                    ELSE IF deviation > 500 THEN 150
                    ELSE IF deviation > 300 THEN 50 ELSE 0)
        c4 == IF \E i \in 1..n : conditions[i].yesPrice < 100
                                 \/ conditions[i].yesPrice > 9900
              THEN c3 - 200 ELSE c3
        low == Cardinality({i \in 1..n : conditions[i].liquidity < 5000})
        c5 == IF 2 * low > n THEN c4 - 150 ELSE c4
    IN  Clamp01(c5)

\* NegRiskDetector.analyzeNegRiskEvent
analyzeNegRiskEvent(conditions) ==
    LET totalYesPriceSum == SumYes(conditions)
        deviation == Max(10000 - totalYesPriceSum, totalYesPriceSum - 10000)
        netProfitPercent == deviation - POLYMARKET_FEE_PERCENT
        minLiq == MinOf(LiquiditiesOf(conditions))
        confidence == NegRisk_calculateConfidence(conditions, deviation, minLiq)
        primaryCondition == Primary(Head(conditions), Tail(conditions))
    IN  IF netProfitPercent < detectorConfig.minProfitThreshold
        THEN NoOpportunity
        ELSE IF minLiq < arbConfig.risk.minLiquidityUsd
        THEN NoOpportunity
        ELSE IF confidence < detectorConfig.minConfidence
        THEN NoOpportunity
        ELSE [type |-> "multi_outcome", subType |-> "negrisk",
              market1Id |-> primaryCondition.conditionId,
              market1Liquidity |-> primaryCondition.liquidity,
              market2Liquidity |-> 0,
              legs |-> LiquiditiesOf(conditions),
              spread |-> deviation, profitPercent |-> netProfitPercent,
              confidenceScore |-> confidence]

\* const MIN_CONDITIONS_FOR_NEGRISK = 3
MIN_CONDITIONS_FOR_NEGRISK == 3

\* NegRiskDetector.detect on the event groups of the markets
NegRisk_detect(eventGroups) ==
    SortByProfit(Pushed([i \in 1..Len(eventGroups) |->
        IF Len(eventGroups[i]) < MIN_CONDITIONS_FOR_NEGRISK
        THEN NoOpportunity
        ELSE analyzeNegRiskEvent(eventGroups[i])]))


\* a MarketMatch of the questionSimilarityMatcher: similarityScore in 1/100
Match(matchType, similarityScore, sharedEntities) ==
    [matchType |-> matchType, similarityScore |-> similarityScore,
     sharedEntities |-> sharedEntities]

\* CrossMarketDetector.isValidPrice
isValidPrice(price) == price > 100 /\ price < 9900

\* CrossMarketDetector.calculateConfidence
CrossMarket_calculateConfidence(market1, market2, match, priceDiff) ==
    LET minLiq == Min(market1.liquidity, market2.liquidity)
        c0 == match.similarityScore * 5
        c1 == c0 + (IF minLiq >= 50000 THEN 200
                    ELSE IF minLiq >= 20000 THEN 100 ELSE 0)
        c2 == IF priceDiff > 1500 /\ match.similarityScore > 80
              THEN c1 - 200 ELSE c1
        c3 == c2 + (IF match.sharedEntities >= 3 THEN 150
                    ELSE IF match.sharedEntities >= 2 THEN 100 ELSE 0)
        c4 == IF market1.category = market2.category THEN c3 + 100 ELSE c3
    IN  Clamp01(c4)

\* CrossMarketDetector.analyzeMatchPair; the profit percentage is rounded
\* down to 1/100 of a point, which keeps every comparison with a threshold
analyzeMatchPair(market1, market2, match) ==
    LET exact == match.matchType = "exact"
        other == IF exact THEN market2.yes ELSE market2.no
        priceDiff == Max(market1.yes - other, other - market1.yes)
        firstCheap == market1.yes < other
        cheapMarket == IF firstCheap THEN market1 ELSE market2
        cheapPrice == IF firstCheap THEN market1.yes ELSE other
        expensiveMarket == IF firstCheap THEN market2 ELSE market1
        grossProfitPercent == (priceDiff * 10000) \div cheapPrice
        netProfitPercent == grossProfitPercent - POLYMARKET_FEE_PERCENT
        confidence ==
            CrossMarket_calculateConfidence(market1, market2, match, priceDiff)
    IN  IF market1.liquidity < arbConfig.risk.minLiquidityUsd
           \/ market2.liquidity < arbConfig.risk.minLiquidityUsd
        THEN NoOpportunity
        ELSE IF ~isValidPrice(market1.yes) \/ ~isValidPrice(market2.yes)
        THEN NoOpportunity
        ELSE IF netProfitPercent < detectorConfig.minProfitThreshold
        THEN NoOpportunity
        ELSE IF confidence < detectorConfig.minConfidence
        THEN NoOpportunity
        ELSE [type |-> "cross_market", subType |-> "",
              market1Id |-> cheapMarket.id,
              market1Liquidity |-> cheapMarket.liquidity,
              market2Liquidity |-> expensiveMarket.liquidity,
              legs |-> <<cheapMarket.liquidity, expensiveMarket.liquidity>>,
              spread |-> priceDiff, profitPercent |-> netProfitPercent,
              confidenceScore |-> confidence]

\* CrossMarketDetector.detect on the matches found, each with its markets
CrossMarket_detect(matches) ==
    SortByProfit(Pushed([i \in 1..Len(matches) |->
        analyzeMatchPair(matches[i].market1, matches[i].market2,
                         matches[i].match)]))

\* RelatedMarketDetector.calculateConfidence
Related_calculateConfidence(market1, market2, violation) ==
    LET minLiq == Min(market1.liquidity, market2.liquidity)
        c0 == 400
        c1 == c0 + (IF minLiq >= 50000 THEN 200
                    ELSE IF minLiq >= 20000 THEN 100 ELSE 0)
        c2 == c1 + (IF violation > 1000 THEN 150
                    ELSE IF violation > 500 THEN 100 ELSE 0)
        c3 == IF market1.category = market2.category THEN c2 + 100 ELSE c2
    IN  Clamp01(c3)

\* RelatedMarketDetector.checkPattern for a pattern both questions match
checkPattern(market1, market2, shouldBeHigher) ==
    LET price1 == market1.yes
        price2 == market2.yes
        violation == IF shouldBeHigher
                     THEN (IF price1 < price2 THEN price2 - price1 ELSE 0)
                     ELSE (IF price1 > price2 THEN price1 - price2 ELSE 0)
        netProfitPercent == violation - POLYMARKET_FEE_PERCENT
        confidence == Related_calculateConfidence(market1, market2, violation)
        cheapMarket == IF shouldBeHigher THEN market1 ELSE market2
        expensiveMarket == IF shouldBeHigher THEN market2 ELSE market1
    IN  IF violation < 150
        THEN NoOpportunity
        ELSE IF netProfitPercent < detectorConfig.minProfitThreshold
        THEN NoOpportunity
        ELSE IF confidence < detectorConfig.minConfidence
        THEN NoOpportunity
        ELSE [type |-> "related_market", subType |-> "",
              market1Id |-> cheapMarket.id,
              market1Liquidity |-> cheapMarket.liquidity,
              market2Liquidity |-> expensiveMarket.liquidity,
              legs |-> <<cheapMarket.liquidity, expensiveMarket.liquidity>>,
              spread |-> violation, profitPercent |-> netProfitPercent,
              confidenceScore |-> confidence]

\* RelatedMarketDetector.analyzeRelationship with one relationship pattern:
\* matches tells whether the questions match it as given ("forward"), the
\* other way round ("reverse") or not at all
analyzeRelationship(market1, market2, sharedNames, matches, shouldBeHigher) ==
    IF market1.liquidity < arbConfig.risk.minLiquidityUsd
       \/ market2.liquidity < arbConfig.risk.minLiquidityUsd
    THEN NoOpportunity
    ELSE IF ~sharedNames THEN NoOpportunity
    ELSE IF matches = "forward"
    THEN checkPattern(market1, market2, shouldBeHigher)
    ELSE IF matches = "reverse"
    THEN checkPattern(market2, market1, shouldBeHigher)
    ELSE NoOpportunity

\* RelatedMarketDetector.detect on the pairs it compares
Related_detect(pairs) ==
    SortByProfit(Pushed([i \in 1..Len(pairs) |->
        analyzeRelationship(pairs[i].market1, pairs[i].market2,
                            pairs[i].sharedNames, pairs[i].matches,
                            pairs[i].shouldBeHigher)]))

\* a SemanticAnalysisResult as createOpportunity reads it: the confidence
\* of the external model in 1/100, the expectedRelation of its constraint
\* ("" without constraint) and the market to buy ("" without direction)
SemanticAnalysis(confidence, expectedRelation, buyMarket) ==
    [confidence |-> confidence, expectedRelation |-> expectedRelation,
     buyMarket |-> buyMarket]

\* market.currentPrices[1] || 0.5
YesOrHalf(market) == IF market.yes = 0 THEN 5000 ELSE market.yes

\* createOpportunity without the Math.min(1, ...) of its combined confidence
Semantic_createOpportunityUnclamped(market1, market2, analysis) ==
    LET violation ==
            IF analysis.expectedRelation = "gte"
            THEN Max(0, YesOrHalf(market2) - YesOrHalf(market1))
            ELSE Max(YesOrHalf(market1) - YesOrHalf(market2),
                     YesOrHalf(market2) - YesOrHalf(market1))
        buyFirst == analysis.buyMarket = market1.id
        buyMarket == IF buyFirst THEN market1 ELSE market2
        sellMarket == IF buyFirst THEN market2 ELSE market1
        combinedConfidence ==
            analysis.confidence * 8 + 100
            + (IF Min(buyMarket.liquidity, sellMarket.liquidity) >= 20000
               THEN 100 ELSE 0)
    IN  IF analysis.confidence < llmConfig.minConfidenceThreshold
           \/ analysis.expectedRelation = "" \/ analysis.buyMarket = ""
           \/ violation < 150
           \/ violation - POLYMARKET_FEE_PERCENT
                  < detectorConfig.minProfitThreshold
           \/ combinedConfidence < detectorConfig.minConfidence
        THEN NoOpportunity
        ELSE [type |-> "related_market", subType |-> "semantic",
              market1Id |-> buyMarket.id,
              market1Liquidity |-> buyMarket.liquidity,
              market2Liquidity |-> sellMarket.liquidity,
              legs |-> <<buyMarket.liquidity, sellMarket.liquidity>>,
              spread |-> violation,
              profitPercent |-> violation - POLYMARKET_FEE_PERCENT,
              confidenceScore |-> combinedConfidence]

\* SemanticDependencyDetector.createOpportunity in full
Semantic_createOpportunity(market1, market2, analysis) ==
    LET price1 == YesOrHalf(market1)
        price2 == YesOrHalf(market2)
        violation ==
            CASE analysis.expectedRelation = "gte" ->
                    IF price2 > price1 THEN price2 - price1 ELSE 0
              [] analysis.expectedRelation = "lte" ->
                    IF price1 > price2 THEN price1 - price2 ELSE 0
              [] analysis.expectedRelation = "eq" ->
                    Max(price1 - price2, price2 - price1)
              [] analysis.expectedRelation = "exclusive" ->
                    Max(0, price1 + price2 - 10000)
              [] OTHER -> 0
        netProfitPercent == violation - POLYMARKET_FEE_PERCENT
        buyFirst == analysis.buyMarket = market1.id
        buyMarket == IF buyFirst THEN market1 ELSE market2
        sellMarket == IF buyFirst THEN market2 ELSE market1
        liquidityConfidence ==
            IF Min(buyMarket.liquidity, sellMarket.liquidity) >= 20000
            THEN 100 ELSE 0
        combinedConfidence ==
            Min(1000, analysis.confidence * 8 + liquidityConfidence + 100)
    IN  IF analysis.confidence < llmConfig.minConfidenceThreshold
        THEN NoOpportunity
        ELSE IF analysis.expectedRelation = "" \/ analysis.buyMarket = ""
        THEN NoOpportunity
        ELSE IF violation < 150
        THEN NoOpportunity
        ELSE IF netProfitPercent < detectorConfig.minProfitThreshold
        THEN NoOpportunity
        ELSE IF combinedConfidence < detectorConfig.minConfidence
        THEN NoOpportunity
        ELSE [type |-> "related_market", subType |-> "semantic",
              market1Id |-> buyMarket.id,
              market1Liquidity |-> buyMarket.liquidity,
              market2Liquidity |-> sellMarket.liquidity,
              legs |-> <<buyMarket.liquidity, sellMarket.liquidity>>,
              spread |-> violation, profitPercent |-> netProfitPercent,
              confidenceScore |-> combinedConfidence]

\* detect without the liquidity floor of findCandidatePairs
Semantic_detectAnyLiquidity(pairs) ==
    SortByProfit(Pushed([i \in 1..Len(pairs) |->
        Semantic_createOpportunity(pairs[i].market1, pairs[i].market2,
                                   pairs[i].analysis)]))

\* SemanticDependencyDetector.detect on the pairs that share entities, each
\* with what analyzeMarketPair returns for it: findCandidatePairs keeps the
\* pairs of liquid markets
Semantic_detect(pairs) ==
    SortByProfit(Pushed([i \in 1..Len(pairs) |->
        IF pairs[i].market1.liquidity < arbConfig.risk.minLiquidityUsd
           \/ pairs[i].market2.liquidity < arbConfig.risk.minLiquidityUsd
        THEN NoOpportunity
        ELSE Semantic_createOpportunity(pairs[i].market1, pairs[i].market2,
                                        pairs[i].analysis)]))

----------------------------------------------------------------------------
(* The detectors and the pure functions applied to enumerated inputs *)

InitCalls ==
    /\ now = 0
    /\ ExecInit(0)
    /\ EngineInit

\* the markets given to the MultiOutcomeDetector: liquidity below the floor
\* and well above it; price sums of 98 %, 97 % and 100 % and a missing NO
\* price; no end date, or closing within a day (which costs confidence)
MultiOutcomeMarkets ==
    {Market("m", liq, p[1], p[2], 0, endDate, "politics") :
        liq \in {4000, 100000},
        p \in {<<4900, 4900>>, <<4800, 4900>>, <<5000, 5000>>, <<0, 5000>>},
        endDate \in {0, DayMs \div 2}}

\* the event groups given to the NegRiskDetector: three conditions whose
\* YES prices sum to 98 %, 97 % or 100 %, and a binary event
NegRiskEvents ==
    {<<Condition("c1", 3000, 100000), Condition("c2", 3300, l2),
       Condition("c3", y3, l3)>> :
        l2 \in {4000, 50000}, l3 \in {50000, 100000},
        y3 \in {3500, 3400, 3700}}
    \cup {<<Condition("c1", 4000, 100000), Condition("c2", 4000, 100000)>>}

\* the matches given to the CrossMarketDetector with their two markets: a
\* sure match with shared entities or a weak one; price differences that
\* give 0.5 % and 1.5 % net, and an invalid price
CrossMarketMatches ==
    {[market1 |-> Market("m1", l1, 6000, 4000, 0, 0, "politics"),
      market2 |-> Market("m2", 50000, 10000 - y2, y2, 0, 0, "politics"),
      match |-> Match(type, s[1], s[2])] :
        l1 \in {4000, 50000}, y2 \in {4060, 4100, 9950},
        type \in {"exact", "inverse"}, s \in {<<100, 3>>, <<70, 1>>}}

\* the pairs the RelatedMarketDetector compares: violations of 1 %, 2 % and
\* 6 % in one direction or the other
RelatedPairs ==
    {[market1 |-> Market("m1", l1, 6000, 4000, 0, 0, "politics"),
      market2 |-> Market("m2", 50000, 10000 - y2, y2, 0, 0, "politics"),
      sharedNames |-> TRUE, matches |-> matches, shouldBeHigher |-> hi] :
        l1 \in {4000, 50000}, y2 \in {4100, 4200, 4600},
        matches \in {"forward", "reverse"}, hi \in BOOLEAN}
    \cup
    {[market1 |-> Market("m1", 50000, 6000, 4000, 0, 0, "politics"),
      market2 |-> Market("m2", 50000, 5400, 4600, 0, 0, "politics"),
      sharedNames |-> shared, matches |-> matches, shouldBeHigher |-> TRUE] :
        shared \in BOOLEAN, matches \in {"forward", "none"}}

\* the pairs the SemanticDependencyDetector analyzes, with the analysis of
\* the external model: a confidence below 0, below the threshold, above it
\* and above 1; with or without constraint and direction
SemanticPairs ==
    {[market1 |-> Market("m1", l1, 6000, 4000, 0, 0, "politics"),
      market2 |-> Market("m2", 50000, 0, y2, 0, 0, "politics"),
      analysis |-> SemanticAnalysis(conf, r[1], r[2])] :
        l1 \in {4000, 50000}, y2 \in {0, 4300},
        conf \in {-10, 70, 90, 150},
        r \in {<<"", "">>, <<"gte", "m1">>}}

\* one detector runs on one or two of its inputs
Detect ==
    /\ call = NoCall
    /\ \E r \in
          {[fn |-> "MultiOutcomeDetector", inputs |-> ms,
            opportunities |-> MultiOutcome_detect(ms, now)] :
              ms \in SeqsUpTo(MultiOutcomeMarkets, MaxDetIn)}
          \cup
          {[fn |-> "NegRiskDetector", inputs |-> es,
            opportunities |-> NegRisk_detect(es)] :
              es \in SeqsUpTo(NegRiskEvents, MaxDetIn)}
          \cup
          {[fn |-> "CrossMarketDetector", inputs |-> ms,
            opportunities |-> CrossMarket_detect(ms)] :
              ms \in SeqsUpTo(CrossMarketMatches, MaxDetIn)}
          \cup
          {[fn |-> "RelatedMarketDetector", inputs |-> ps,
            opportunities |-> Related_detect(ps)] :
              ps \in SeqsUpTo(RelatedPairs, MaxDetIn)}
          \cup
          {[fn |-> "SemanticDependencyDetector", inputs |-> ps,
            opportunities |-> Semantic_detect(ps)] :
              ps \in SeqsUpTo(SemanticPairs, MaxDetIn)} :
          call' = r
    /\ UNCHANGED <<now, engineVars, dbVars, runnerVars, detectVars, execVars,
                   llmVars>>

DetectorNames ==
    {"MultiOutcomeDetector", "NegRiskDetector", "CrossMarketDetector",
     "RelatedMarketDetector", "SemanticDependencyDetector"}

\* new RiskManager(limits) with limits.minLiquidityUsd given
RiskManagerWith(minLiquidityUsd, t) ==
    [NewRiskManager(t) EXCEPT !.limits.minLiquidityUsd = minLiquidityUsd]

\* the floors a RiskManager is constructed with: the configured one, and a
\* stricter one passed to the constructor
LiquidityFloors == {arbConfig.risk.minLiquidityUsd, 60000}

\* checkLiquidity, as part of checkPreExecution, on an emitted opportunity
CheckLiquidity ==
    /\ call.fn \in DetectorNames
    /\ \E i \in 1..Len(call.opportunities) : \E floor \in LiquidityFloors :
          call' = [fn |-> "checkLiquidity",
                   opportunity |-> call.opportunities[i],
                   minLiquidityUsd |-> floor,
                   check |-> checkLiquidity(RiskManagerWith(floor, now),
                                            call.opportunities[i])]
    /\ UNCHANGED <<now, engineVars, dbVars, runnerVars, detectVars, execVars,
                   llmVars>>

\* confidence scores in 1/100, from below 0 to above 1
KellyConfidences == {-10, 0, 50, 60, 80, 95, 100, 150}

\* profit percentages in 1/100 of a point: negative, zero, and from 0.01 %
\* to 100 %
KellyProfits == {-200, -1, 0, 1, 5, 50, 200, 1000, 10000}

\* bankrolls in mills: just below $10, $10, $100 and $800
KellyBankrolls == {9999, 10000, 100000, 800000}

\* calculateKellyFraction and calculatePositionSize on an opportunity
KellyFraction ==
    /\ call = NoCall
    /\ \E c \in KellyConfidences, profit \in KellyProfits,
          bank \in KellyBankrolls :
          call' = [fn |-> "calculateKellyFraction",
                   confidenceScore |-> c, expectedProfitPercent |-> profit,
                   bankroll |-> bank,
                   fraction |-> calculateKellyFraction(c, profit),
                   positionSize |->
                       calculatePositionSize(bank,
                           MultiOutcomeOpp("m1", 10000, profit, "underpriced",
                                           c))]
    /\ UNCHANGED <<now, engineVars, dbVars, runnerVars, detectVars, execVars,
                   llmVars>>

\* SlippageModel.calculatePriceImpact, in basis points
calculatePriceImpact(price, isBuy) ==
    IF isBuy
    THEN (IF price > 9000 THEN (price - 9000) \div 100 ELSE 0)
    ELSE (IF price < 1000 THEN (1000 - price) \div 100 ELSE 0)

\* Math.max(0.01, Math.min(0.99, price))
ClampPrice(price) == Max(100, Min(9900, price))

\* the SlippageEstimate of estimate before its price is clamped, with
\* baseSlippageBps = 10 and liquidityImpactFactor = 0.5; slippage in whole
\* basis points, the confidence of the estimate in 1/100
RawEstimate(orderSizeUsd, marketLiquidity, isBuy, currentPrice) ==
    LET totalSlippageBps == 10 + (orderSizeUsd * 5000) \div marketLiquidity
                            + calculatePriceImpact(currentPrice, isBuy)
    IN  [estimatedSlippageBps |-> totalSlippageBps,
         estimatedExecutionPrice |->
             IF isBuy
             THEN (currentPrice * (10000 + totalSlippageBps)) \div 10000
             ELSE (currentPrice * (10000 - totalSlippageBps)) \div 10000,
         confidence |-> Max(30, 100 - (orderSizeUsd * 200) \div marketLiquidity),
         liquidityDepth |-> marketLiquidity]

\* estimate without the clamp of its execution price
estimateUnclamped(orderSizeUsd, marketLiquidity, isBuy, currentPrice) ==
    RawEstimate(orderSizeUsd, marketLiquidity, isBuy, currentPrice)

\* SlippageModel.estimate
estimate(orderSizeUsd, marketLiquidity, isBuy, currentPrice) ==
    [RawEstimate(orderSizeUsd, marketLiquidity, isBuy, currentPrice)
        EXCEPT !.estimatedExecutionPrice = ClampPrice(@)]

\* SlippageModel.addNoise with noise = (Math.random() - 0.5) * 0.4 given in
\* percent
addNoise(est, noise) ==
    LET noisySlippage == (est.estimatedSlippageBps * (100 + noise)) \div 100
        originalPrice == (est.estimatedExecutionPrice * 10000)
                         \div (10000 + est.estimatedSlippageBps)
    IN  [est EXCEPT
            !.estimatedSlippageBps = Max(0, noisySlippage),
            !.estimatedExecutionPrice =
                ClampPrice((originalPrice * (10000 + noisySlippage))
                           \div 10000)]

\* order sizes in dollars, liquidity figures from $10 to $100,000, prices
\* from 0 to 1 and the noise from -20 % to just below +20 %
SlippageSizes == {5, 25, 150}

SlippageLiquidities == {10, 100, 5000, 100000}

SlippagePrices == {0, 50, 100, 5000, 9500, 9900, 9950, 10000}

Noises == {-20, -10, 0, 10, 19}

\* slippageModel.estimate(orderSizeUsd, marketLiquidity, isBuy, currentPrice)
Estimate ==
    /\ call = NoCall
    /\ \E size \in SlippageSizes, liq \in SlippageLiquidities,
          isBuy \in BOOLEAN, price \in SlippagePrices :
          call' = [fn |-> "estimate", orderSizeUsd |-> size, isBuy |-> isBuy,
                   currentPrice |-> price,
                   estimate |-> estimate(size, liq, isBuy, price)]
    /\ UNCHANGED <<now, engineVars, dbVars, runnerVars, detectVars, execVars,
                   llmVars>>

\* slippageModel.addNoise(estimate) on an estimate of estimate
AddNoise ==
    /\ call.fn = "estimate"
    /\ \E noise \in Noises :
          call' = [call EXCEPT !.fn = "addNoise",
                               !.estimate = addNoise(@, noise)]
    /\ UNCHANGED <<now, engineVars, dbVars, runnerVars, detectVars, execVars,
                   llmVars>>

NextCalls ==
    \/ Detect
    \/ CheckLiquidity
    \/ KellyFraction
    \/ Estimate
    \/ AddNoise

SpecCalls == InitCalls /\ [][NextCalls]_vars

----------------------------------------------------------------------------
(* SemanticDependencyDetector on every kind of reply of the external model *)

\* the relationship_type of a reply: the seven of the prompt, other letter
\* cases of them, an unknown word and the name of an inherited property
ReplyTypes ==
    RelationshipTypes
       \cup {"none", "None", "NONE", "Subset", "TEMPORAL", "related",
             "constructor"}

\* valid replies: a confidence below, at and above the threshold, with or
\* without constraint and direction
TypedReplies ==
    {Response("reply", TRUE, TRUE, type, TRUE, confidence, actionable) :
        type \in ReplyTypes, confidence \in {50, 75, 90},
        actionable \in BOOLEAN}

\* analyzeMarketPair on a cache miss, after the reply: what it returns
transformLLMResponse(response) ==
    LET parsed == parseAnalysisResponse(response)
    IN  IF parsed = NoResponse \/ parsed.relationship_type = "none"
        THEN NoAnalysis
        ELSE Analysis(mapRelationshipType(parsed.relationship_type),
                      parsed.confidence, parsed.actionable)

\* detect analyzes one pair whose reply arrives: the analysis returned and
\* whether an opportunity is pushed for it; the pairs are numbered
AnalyzePair ==
    /\ \/ call = NoCall
       \/ call.fn = "analyzeMarketPair" /\ call.no < MaxDetIn
    /\ \E response \in TypedReplies \cup Replies :
       \E analysis \in {transformLLMResponse(response)} :
          call' = [fn |-> "analyzeMarketPair",
                   no |-> IF call = NoCall THEN 1 ELSE call.no + 1,
                   response |-> response,
                   analysis |-> analysis,
                   emitted |-> analysis # NoAnalysis
                                  /\ createOpportunity(analysis)]
    /\ UNCHANGED <<now, engineVars, dbVars, runnerVars, detectVars, execVars,
                   llmVars>>

NextRelation == AnalyzePair

SpecRelation == InitCalls /\ [][NextRelation]_vars

----------------------------------------------------------------------------
(* SemanticCache under every sequence of its operations *)

\* LLM_CACHE_SIZE of the caches driven: 1, 2 and 20
CacheSizes == {1, 2, 20}

\* the market pairs of the calls, in either order
CachePairs ==
    {<<"m1", "m2">>, <<"m2", "m1">>, <<"m6", "m7">>, <<"m5", "m7">>}

\* the 19 other pairs of the seven markets, m1:m2 first
OtherPairs ==
    <<<<"m1", "m2">>, <<"m1", "m3">>, <<"m1", "m4">>, <<"m1", "m5">>,
      <<"m1", "m6">>, <<"m1", "m7">>, <<"m2", "m3">>, <<"m2", "m4">>,
      <<"m2", "m5">>, <<"m2", "m6">>, <<"m2", "m7">>, <<"m3", "m4">>,
      <<"m3", "m5">>, <<"m3", "m6">>, <<"m3", "m7">>, <<"m4", "m5">>,
      <<"m4", "m6">>, <<"m4", "m7">>, <<"m5", "m6">>>>

RECURSIVE Filled(_, _)
\* the cache of size maxSize after set was called at time 0 for the first
\* n of OtherPairs
Filled(maxSize, n) ==
    IF n = 0 THEN <<>>
    ELSE SemanticCache_setAt(maxSize, Filled(maxSize, n - 1),
                             OtherPairs[n][1], OtherPairs[n][2],
                             NegativeResult, 0)

\* the results stored
CacheResults == {NegativeResult, Analysis("subset", 90, TRUE)}

\* the operation recorded in call: the cache's maxSize, the number of the
\* operation, its name, its arguments and what it returned
CacheOp(name, pair, returned) ==
    [fn |-> "SemanticCache", maxSize |-> call.maxSize, no |-> call.no + 1,
     op |-> name, pair |-> pair, returned |-> returned]

\* a small cache starts empty; the cache of 20 has one free entry left
InitCache ==
    /\ now = 0
    /\ ExecInit(0)
    /\ trackedOpportunities = EmptyMap
    /\ trackedOrder = <<>>
    /\ persisted = EmptyMap
    /\ dbErrors = {}
    /\ isRunning = FALSE
    /\ exited = FALSE
    /\ detectionInterval = FALSE
    /\ cyclesRun = 0
    /\ cyc = [s \in Slots |-> IdleCyc]
    /\ enabledTypes = RunnerEnabled
    /\ detOutcomes = NoOutcomes
    /\ detectResult = NoResult
    /\ llmStats = NewLLMStats(0)
    /\ requests = <<>>
    /\ sem = [s \in LLMSlots |-> IdleSem]
    /\ \E maxSize \in CacheSizes :
          /\ call = [fn |-> "SemanticCache", maxSize |-> maxSize, no |-> 0,
                     op |-> "new", pair |-> <<>>, returned |-> NoAnalysis]
          /\ semCache = IF maxSize < Len(OtherPairs) THEN <<>>
                        ELSE Filled(maxSize, Len(OtherPairs))

\* the clock advances by half a minute
CacheTick ==
    /\ now < MaxLLMTicks * LLMTickMs
    /\ now' = now + LLMTickMs
    /\ UNCHANGED <<pureVars, llmVars, engineVars, dbVars, runnerVars,
                   detectVars, execVars>>

\* semanticCache.set(result) for the pair of the result
CacheSet(pair, result) ==
    /\ call.no < MaxCacheOps
    /\ semCache' = SemanticCache_setAt(call.maxSize, semCache, pair[1],
                                       pair[2], result, now)
    /\ call' = CacheOp("set", pair, result)
    /\ UNCHANGED <<now, engineVars, dbVars, runnerVars, detectVars, execVars,
                   llmStats, requests, sem>>

\* semanticCache.get(market1Id, market2Id)
CacheGet(pair) ==
    /\ call.no < MaxCacheOps
    /\ \E g \in {SemanticCache_get(semCache, pair[1], pair[2], now)} :
          /\ semCache' = g.cache
          /\ call' = CacheOp("get", pair, g.result)
    /\ UNCHANGED <<now, engineVars, dbVars, runnerVars, detectVars, execVars,
                   llmStats, requests, sem>>

\* semanticCache.has(market1Id, market2Id)
CacheHas(pair) ==
    /\ call.no < MaxCacheOps
    /\ \E h \in {SemanticCache_has(semCache, pair[1], pair[2], now)} :
          /\ semCache' = h.cache
          /\ call' = CacheOp("has", pair, h.result)
    /\ UNCHANGED <<now, engineVars, dbVars, runnerVars, detectVars, execVars,
                   llmStats, requests, sem>>

\* semanticCache.cleanup()
CacheCleanup ==
    /\ call.no < MaxCacheOps
    /\ semCache' = SemanticCache_cleanup(semCache, now)
    /\ call' = CacheOp("cleanup", <<>>, NoAnalysis)
    /\ UNCHANGED <<now, engineVars, dbVars, runnerVars, detectVars, execVars,
                   llmStats, requests, sem>>

NextCache ==
    \/ CacheTick
    \/ \E pair \in CachePairs, result \in CacheResults : CacheSet(pair, result)
    \/ \E pair \in CachePairs : CacheGet(pair)
    \/ \E pair \in CachePairs : CacheHas(pair)
    \/ CacheCleanup

SpecCache == InitCache /\ [][NextCache]_vars

----------------------------------------------------------------------------

(* Properties of the detection cycles *)

Abs(x) == IF x < 0 THEN -x ELSE x

Active(s) == cyc[s].pc # "idle"

\* the activation in slot s takes the step that ends engine.detect and runs
\* getNewOpportunities
DetectStep(s) == cyc[s].pc = "detect" /\ cyc'[s].pc # "detect"

\* the keys of the opportunities engine.detect returned in that step
ResultKeys(s) ==
    {k \in DOMAIN trackedOpportunities' :
        trackedOpportunities'[k].opportunity.obj = cyc[s].no}

\* getNewOpportunities returned the opportunity with key k in that step
Reported(s, k) ==
    /\ cyc'[s].pc = "save"
    /\ \E i \in 1..Len(cyc'[s].newOpps) :
          getOpportunityKey(cyc'[s].newOpps[i]) = k

\* C2: no two detection cycles are ever in progress at the same time: a
\* timer tick that arrives while a cycle is suspended at an await does not
\* start a second one.
C2_NoOverlappingCycles ==
    Cardinality({s \in Slots : Active(s)}) <= 1

SameOpportunity(a, b) ==
    /\ a.type = b.type
    /\ a.market1Id = b.market1Id
    /\ a.market2Id = b.market2Id

\* C4: the tracking map never holds two entries for the same opportunity
\* (same type and market ids), however often it is re-detected; every entry
\* is filed under the key of its opportunity and the Map's key order lists
\* each tracked key once.
C4_StableDedupKey ==
    /\ \A k1 \in DOMAIN trackedOpportunities :
       \A k2 \in DOMAIN trackedOpportunities :
          SameOpportunity(trackedOpportunities[k1].opportunity,
                          trackedOpportunities[k2].opportunity) => k1 = k2
    /\ \A k \in DOMAIN trackedOpportunities :
          getOpportunityKey(trackedOpportunities[k].opportunity) = k
    /\ Range(trackedOrder) = DOMAIN trackedOpportunities
    /\ Len(trackedOrder) = Cardinality(DOMAIN trackedOpportunities)

\* an opportunity re-detected in a later cycle with another profit is still
\* tracked by one entry, which counts both sightings
C4_Witness ==
    \E k \in DOMAIN trackedOpportunities :
       /\ trackedOpportunities[k].seenCount >= 2
       /\ trackedOpportunities[k].firstSeenAt < trackedOpportunities[k].lastSeenAt
       /\ Len(trackedOpportunities[k].priceHistory) >= 2
       /\ trackedOpportunities[k].priceHistory[1].spread #
            trackedOpportunities[k].priceHistory[2].spread

Removed == DOMAIN trackedOpportunities \ DOMAIN trackedOpportunities'

\* every key a step deletes was, when the expire call collected it, last
\* seen more than 5 minutes before the call
C5_RemovesOnlyOld ==
    \A s \in Slots : cyc'[s] # cyc[s] =>
       \A k \in Removed :
          IF cyc[s].pc = "expire"
          THEN /\ k \in DOMAIN cyc[s].expSeen
               /\ cyc[s].expAt - cyc[s].expSeen[k] > OPPORTUNITY_EXPIRY_MS
          ELSE now - trackedOpportunities[k].lastSeenAt > OPPORTUNITY_EXPIRY_MS

\* when an expire call returns, no entry is left that was last seen more
\* than 5 minutes before the call
C5_LeavesNoOld ==
    \A s \in Slots :
       (cyc[s].pc \in {"detect", "process", "expire"} /\ cyc'[s].pc = "idle") =>
          \A k \in DOMAIN trackedOpportunities' :
             (IF cyc[s].pc = "expire" THEN cyc[s].expAt ELSE now)
               - trackedOpportunities'[k].lastSeenAt <= OPPORTUNITY_EXPIRY_MS

\* a key that enters the map, also after an eviction, starts a fresh entry
C5_FreshEntry ==
    \A k \in DOMAIN trackedOpportunities' \ DOMAIN trackedOpportunities :
       /\ trackedOpportunities'[k].seenCount = 1
       /\ trackedOpportunities'[k].firstSeenAt = now
       /\ trackedOpportunities'[k].lastSeenAt = now
       /\ Len(trackedOpportunities'[k].priceHistory) = 1

RowKey(row) == getOpportunityKey(row)

C6_EvictedIsExpired ==
    [][\A k \in Removed :
         \A id \in DOMAIN persisted' :
            (RowKey(persisted'[id]) = k /\ id \notin dbErrors')
               => persisted'[id].status = "expired"]_vars

\* C7: in a cycle, an opportunity whose key was not tracked before
\* engine.detect is returned by getNewOpportunities.
C7_UntrackedIsNew ==
    [][\A s \in Slots : DetectStep(s) =>
          \A k \in ResultKeys(s) :
             k \notin DOMAIN trackedOpportunities => Reported(s, k)]_vars

\* a cycle is saving an opportunity it reported as new on its first sighting
C7_Witness ==
    \E s \in Slots :
       /\ cyc[s].pc = "save"
       /\ \E i \in 1..Len(cyc[s].newOpps) :
          LET k == getOpportunityKey(cyc[s].newOpps[i]) IN
             /\ k \in DOMAIN trackedOpportunities
             /\ trackedOpportunities[k].seenCount = 1
             /\ trackedOpportunities[k].opportunity.obj = cyc[s].no

\* C8: an opportunity seen in exactly one earlier cycle is returned by
\* getNewOpportunities in the cycle of its second sighting, and an unchanged
\* opportunity is not returned on its third and later sightings.
C8_ConfirmedIsNew ==
    [][\A s \in Slots : DetectStep(s) =>
          \A k \in ResultKeys(s) \cap DOMAIN trackedOpportunities :
             /\ trackedOpportunities[k].seenCount = 1 => Reported(s, k)
             /\ (/\ trackedOpportunities[k].seenCount >= 2
                 /\ trackedOpportunities'[k].opportunity.profitPercent =
                      trackedOpportunities[k].opportunity.profitPercent)
                => ~Reported(s, k)]_vars

\* C9: an opportunity seen at least twice whose profit differs by more than
\* 0.5 percentage points from the profit of its previous sighting is
\* returned by getNewOpportunities.
C9_SignificantChangeIsNew ==
    [][\A s \in Slots : DetectStep(s) =>
          \A k \in ResultKeys(s) \cap DOMAIN trackedOpportunities :
             (/\ trackedOpportunities[k].seenCount >= 2
              /\ Abs(trackedOpportunities'[k].opportunity.profitPercent
                       - trackedOpportunities[k].opportunity.profitPercent)
                   > SignificantChange)
             => Reported(s, k)]_vars

----------------------------------------------------------------------------
(* Properties of engine.detect *)

\* the enabled detectors that did not fail, in the engine's order
Succeeded ==
    SelectSeq(Detectors, LAMBDA d : d \in enabledTypes
                                   /\ detOutcomes[d].status = "fulfilled")

Failed == {d \in enabledTypes : detOutcomes[d].status = "rejected"}

\* the opportunities the detectors that did not fail returned
Returned ==
    UNION {Range(detOutcomes[d].value) : d \in Range(Succeeded)}

IsDedupedMerge(out, in) ==
    /\ Range(out) \subseteq in
    /\ \A i \in 1..Len(out) : \A j \in 1..Len(out) :
          i # j => getOpportunityKey(out[i]) # getOpportunityKey(out[j])
    /\ \A o \in in : \E i \in 1..Len(out) :
          /\ getOpportunityKey(out[i]) = getOpportunityKey(o)
          /\ out[i].profitPercent >= o.profitPercent
    /\ IsSortedDesc(out)

\* C10: whichever enabled detectors reject, engine.detect resolves, and its
\* result is the deduplicated merge (one opportunity per key, the most
\* profitable, sorted by profit) of what the other detectors returned, the
\* same as if the failing detectors had returned nothing.
C10_FailedDetectorsIsolated ==
    detectResult.status # "none" =>
       /\ detectResult.status = "fulfilled"
       /\ IsDedupedMerge(detectResult.opportunities, Returned)
       /\ detectResult.opportunities =
            filterAndDedupe(Flatten([i \in 1..Len(Succeeded) |->
                                       detOutcomes[Succeeded[i]].value]))

\* a detector rejected while two others returned the same key with different
\* profits, and the result holds that key once
C10_Witness ==
    /\ detectResult.status = "fulfilled"
    /\ Failed # {}
    /\ Len(detectResult.opportunities) >= 1
    /\ Cardinality(Returned) > Len(detectResult.opportunities)

----------------------------------------------------------------------------
(* Properties of the RiskManager and of the executors *)

CheckNames == <<"position_limit", "total_exposure", "daily_loss", "liquidity",
                "cooldown", "profitability">>

\* the six checks, each evaluated on its own for the request of the last
\* check and the RiskManager it read
Passes ==
    <<checkPositionLimit(localRiskManager, riskCheck.opportunity,
                         riskCheck.orderSizeUsd).passed,
      checkTotalExposure(localRiskManager, riskCheck.orderSizeUsd).passed,
      checkDailyLoss(localRiskManager).passed,
      checkLiquidity(localRiskManager, riskCheck.opportunity).passed,
      checkCooldown(localRiskManager, now).passed,
      checkMinProfitability(riskCheck.opportunity,
                            riskCheck.orderSizeUsd).passed>>

\* exactly the check called name fails
OnlyFails(checks, name) ==
    /\ Len(checks) = Len(CheckNames)
    /\ \A i \in 1..Len(checks) :
          checks[i].passed = (CheckNames[i] # name)

\* C1: checkPreExecution approves iff all six checks (position_limit,
\* total_exposure, daily_loss, liquidity, cooldown, profitability) pass, so a
\* single failing check rejects; the result lists the six checks in that
\* order and a rejection's reason is that of the first failing one.
C1_ApprovedIffAllChecksPass ==
    riskCheck # NoRiskCheck =>
       /\ Len(riskCheck.checks) = Len(CheckNames)
       /\ \A i \in 1..Len(CheckNames) :
             /\ riskCheck.checks[i].name = CheckNames[i]
             /\ riskCheck.checks[i].passed = Passes[i]
       /\ riskCheck.approved = (\A i \in 1..Len(CheckNames) : Passes[i])
       /\ riskCheck.approved => riskCheck.reason = ""
       /\ \A i \in 1..Len(CheckNames) :
             (~Passes[i] /\ \A j \in 1..(i - 1) : Passes[j])
                => /\ ~riskCheck.approved
                   /\ riskCheck.reason = CheckNames[i]

\* a request was rejected because only its cooldown check failed, and for
\* each of the six checks there is a risk state and a request where that
\* check alone fails and its reason is reported
C1_Witness ==
    /\ riskCheck # NoRiskCheck
    /\ ~riskCheck.approved
    /\ riskCheck.reason = "cooldown"
    /\ OnlyFails(riskCheck.checks, "cooldown")
    /\ \A n \in 1..Len(CheckNames) :
          \E rm \in RiskStates(now) :
          \E o \in ExecOpps : \E s \in OrderSizes :
             LET rc == checkPreExecution(rm, o, s, now)
             IN  /\ OnlyFails(rc.checks, CheckNames[n])
                 /\ ~rc.approved
                 /\ rc.reason = CheckNames[n]

\* checkPreExecution approved that opportunity and size (in mills), and no
\* other check came after it
Admitted(opportunity, size) ==
    /\ riskCheck'.approved
    /\ riskCheck'.opportunity = opportunity
    /\ riskCheck'.orderSizeUsd * 1000 = size

\* the RiskManager recorded a trade in this step
RiskManagerUpdated ==
    /\ localRiskManager'.lastTradeTime = now
    /\ localRiskManager'.dailyVolume > 0
    /\ localRiskManager' # localRiskManager

\* a step of SimulationExecutor.execute that changes balance, P&L or counters
C3_SimulationAdmitted ==
    state' # state =>
       /\ Admitted(lastResult'.opportunity, lastResult'.sizeUsd * 1000)
       /\ lastResult'.status = "complete"
       /\ RiskManagerUpdated

\* a step of PaperTradingExecutor.execute that changes the bankroll or
\* records a trade
C3_PaperAdmitted ==
    \A s \in PaperSlots :
       (paperExec'[s] # paperExec[s] /\ (bankroll' # bankroll \/ trades' # trades))
          => LET e == IF paperExec[s].pc = "idle" THEN paperExec'[s]
                      ELSE paperExec[s]
             IN  /\ Admitted(e.opportunity, e.positionSize)
                 /\ trades' # trades => RiskManagerUpdated

\* C3: on the paths the runners drive (SimulationExecutor.execute and
\* PaperTradingExecutor.execute) no balance or bankroll change and no trade
\* record happens for an opportunity unless checkPreExecution approved that
\* opportunity and size, and a completed trade updates the RiskManager.
C3_TradesAreAdmitted ==
    [][C3_SimulationAdmitted /\ C3_PaperAdmitted]_vars

----------------------------------------------------------------------------
(* Properties of the merged result *)

\* allOpportunities: what engine.detect hands to filterAndDedupe
Merged ==
    Flatten([i \in 1..Len(Succeeded) |-> detOutcomes[Succeeded[i]].value])

KeysOf(s) == {getOpportunityKey(s[i]) : i \in 1..Len(s)}

\* C11: the merged result of a cycle holds at most one opportunity per
\* canonical key, that opportunity has the highest profit percentage of the
\* merged opportunities with its key, every key of the input is in the
\* output, and the output is in descending order of profit percentage.
C11_MergedResultDeduped ==
    detectResult.status = "fulfilled" =>
       LET out == detectResult.opportunities IN
       /\ \A i \in 1..Len(out) : \A j \in 1..Len(out) :
             getOpportunityKey(out[i]) = getOpportunityKey(out[j]) => i = j
       /\ \A i \in 1..Len(out) :
             /\ \E m \in 1..Len(Merged) : Merged[m] = out[i]
             /\ \A m \in 1..Len(Merged) :
                   getOpportunityKey(Merged[m]) = getOpportunityKey(out[i])
                      => Merged[m].profitPercent <= out[i].profitPercent
       /\ KeysOf(out) = KeysOf(Merged)
       /\ \A i \in 1..(Len(out) - 1) :
             out[i].profitPercent >= out[i + 1].profitPercent

\* the merged input was in ascending order of profit and held one key twice
\* with different profits (the less profitable first) next to another key
C11_Witness ==
    /\ detectResult.status = "fulfilled"
    /\ Len(detectResult.opportunities) >= 2
    /\ \E m \in 1..Len(Merged) : \E n \in 1..Len(Merged) :
          /\ m < n
          /\ getOpportunityKey(Merged[m]) = getOpportunityKey(Merged[n])
          /\ Merged[m].profitPercent < Merged[n].profitPercent
    /\ \E m \in 1..Len(Merged) :
          Merged[m].profitPercent < detectResult.opportunities[1].profitPercent
          /\ getOpportunityKey(Merged[m])
                # getOpportunityKey(detectResult.opportunities[1])

----------------------------------------------------------------------------
(* Properties of the RiskManager over several days *)

\* the step is a checkPreExecution (not a tick, not an updateAfterExecution,
\* not an emergencyStop)
IsCheckStep ==
    /\ now' = now
    /\ localRiskManager'.lastTradeTime = localRiskManager.lastTradeTime
    /\ localRiskManager'.limits = localRiskManager.limits

\* C12: the daily counters are reset once per UTC day: a checkPreExecution
\* at or after the stored midnight boundary zeroes daily P&L and daily volume
\* and moves the boundary to the next UTC midnight, which lies after the
\* check; a check before the boundary leaves counters and boundary alone,
\* and so does every step that is not a check.
C12_DailyResetOncePerDay ==
    [][ /\ (IsCheckStep /\ now >= localRiskManager.dailyReset) =>
             /\ localRiskManager'.dailyPnL = 0
             /\ localRiskManager'.dailyVolume = 0
             /\ localRiskManager'.dailyReset > now
             /\ localRiskManager'.dailyReset - now <= DayMs
             /\ localRiskManager'.dailyReset % DayMs = 0
        /\ (IsCheckStep /\ now < localRiskManager.dailyReset) =>
             /\ localRiskManager'.dailyPnL = localRiskManager.dailyPnL
             /\ localRiskManager'.dailyVolume = localRiskManager.dailyVolume
             /\ localRiskManager'.dailyReset = localRiskManager.dailyReset
        /\ ~IsCheckStep =>
             (localRiskManager'.dailyReset = localRiskManager.dailyReset)
      ]_vars

\* at the first midnight a check reset the counters of a RiskManager that
\* had bought the day before, a trade followed, and a further check (which
\* the cooldown rejected) left the volume of that trade in place
C12_Witness ==
    /\ now = DayMs
    /\ localRiskManager.dailyReset = 2 * DayMs
    /\ localRiskManager.lastTradeTime = DayMs
    /\ localRiskManager.dailyVolume > 0
    /\ localRiskManager.totalExposure > localRiskManager.dailyVolume
    /\ riskCheck.reason = "cooldown"

\* the limits are no longer those the constructor set: only emergencyStop
\* writes this.limits
StopCalled == localRiskManager.limits # NewRiskManager(0).limits

\* the order sizes callers ask for: ArbitrageRunner.executeOpportunity skips
\* a size under $10 and asks for $100 at most
PositiveSizes == {10} \cup OrderSizes

\* no request would be approved by a checkPreExecution made in this state
Blocked ==
    \A o \in ExecOpps : \A s \in PositiveSizes :
        ~checkPreExecution(localRiskManager, o, s, now).approved

\* C13: once emergencyStop has been called, every checkPreExecution is
\* rejected, whatever the opportunity, the order size and the risk state
\* (zero exposure and a positive daily P&L included), and no later check,
\* update, daily reset or passage of time makes an approval possible again.
C13_EmergencyStopBlocks ==
    /\ [](StopCalled => Blocked)
    /\ [][(EmergencyStop \/ StopCalled) =>
             /\ StopCalled'
             /\ (IsCheckStep => ~riskCheck'.approved)]_vars

\* after the stop a request was checked while the exposure was zero and the
\* daily P&L positive: its daily-loss check passed and it was rejected for
\* total exposure
C13_Witness ==
    /\ StopCalled
    /\ localRiskManager.totalExposure = 0
    /\ localRiskManager.dailyPnL > 0
    /\ ~riskCheck.approved
    /\ riskCheck.reason = "total_exposure"
    /\ riskCheck.checks[3].passed

----------------------------------------------------------------------------
(* Properties of shutdown *)

\* an activation of PaperTradingExecutor.execute has deducted its capital
\* and not settled yet
PaperInFlight == \E s \in PaperSlots : paperExec[s].pc = "sleep"

\* SimulationExecutor.state records a trade its RiskManager has not
SimInFlight ==
    /\ state.tradesSuccessful > 0
    /\ localRiskManager.lastTradeTime # state.lastTradeAt

\* C15: the process halts only after an execution in flight has completed:
\* when it has exited, no execute call is left between its first and its
\* last state change, so neither the bankroll (capital deducted, not
\* settled) nor the balance and RiskManager reflect a half-applied trade.
C15_HaltAfterInFlightExecution ==
    exited => (~PaperInFlight /\ ~SimInFlight)

----------------------------------------------------------------------------
(* Properties of SimulationExecutor.execute *)

\* the step is an execute call that returned a failed result
ExecuteFailed ==
    /\ riskCheck = NoRiskCheck
    /\ riskCheck' # NoRiskCheck
    /\ lastResult'.status = "failed"

\* the call was the first check at or after the stored midnight boundary
FirstCheckOfDay == now >= localRiskManager.dailyReset

\* what a failed execute leaves alone whatever the time of day
FailedFrame ==
    /\ state' = state
    /\ localRiskManager'.positions = localRiskManager.positions
    /\ localRiskManager'.totalExposure = localRiskManager.totalExposure
    /\ localRiskManager'.lastTradeTime = localRiskManager.lastTradeTime
    /\ localRiskManager'.limits = localRiskManager.limits

\* C16 as stated: an execute call that is rejected by the risk check or
\* fails for insufficient balance leaves balance, total P&L, positions,
\* exposure, daily P&L and last-trade time unchanged.
C16_FailedExecuteFrame ==
    [][ExecuteFailed =>
          /\ FailedFrame
          /\ localRiskManager'.dailyPnL = localRiskManager.dailyPnL]_vars

\* C16 amended: such a call leaves balance, total P&L, trade counters,
\* positions, exposure and last-trade time unchanged; the daily P&L and
\* daily volume are unchanged too unless the call is the first check at or
\* after the UTC-midnight boundary, whose daily reset zeroes them.
C16_FailedExecuteFrameButReset ==
    [][ExecuteFailed =>
          /\ FailedFrame
          /\ IF FirstCheckOfDay
             THEN /\ localRiskManager'.dailyPnL = 0
                  /\ localRiskManager'.dailyVolume = 0
             ELSE /\ localRiskManager'.dailyPnL = localRiskManager.dailyPnL
                  /\ localRiskManager'.dailyVolume
                        = localRiskManager.dailyVolume
                  /\ localRiskManager' = localRiskManager]_vars

\* an execute that the risk check approved failed for insufficient balance
\* on an executor whose RiskManager held a position and a daily P&L
C16_Witness ==
    /\ lastResult.status = "failed"
    /\ lastResult.failureReason = "Insufficient balance"
    /\ riskCheck.approved
    /\ localRiskManager.positions # EmptyMap
    /\ localRiskManager.dailyPnL # 0
    /\ localRiskManager.lastTradeTime # 0

\* the step is an execute call whose execution completed and whose save
\* threw: the result carries no id
ExecuteUnsaved ==
    /\ riskCheck = NoRiskCheck
    /\ riskCheck' # NoRiskCheck
    /\ lastResult'.status = "complete"
    /\ lastResult'.id = NoId

\* C20: when the save of a completed execution throws, execute still
\* returns the completed result, and the balance, P&L and trade counters of
\* the executor and the position, exposure, daily figures and last-trade
\* time of its RiskManager are those of the applied execution.
C20_SaveFailureKeepsState ==
    [][ExecuteUnsaved =>
          LET r == lastResult'
              m == r.opportunity.market1Id
              before == PositionSize(localRiskManager, m)
              after == IF r.side = "BUY" THEN before + r.filledSize
                       ELSE IF before - r.filledSize > 0
                            THEN before - r.filledSize ELSE 0
              day == IF FirstCheckOfDay THEN [pnl |-> 0, volume |-> 0]
                     ELSE [pnl |-> localRiskManager.dailyPnL,
                           volume |-> localRiskManager.dailyVolume]
          IN  /\ r.opportunity = riskCheck'.opportunity
              /\ r.sizeUsd = riskCheck'.orderSizeUsd
              /\ r.realizedProfitUsd \in PnLs(r.opportunity.type)
              /\ state'.balance = state.balance + r.realizedProfitUsd
              /\ state'.totalPnl = state.totalPnl + r.realizedProfitUsd
              /\ state'.tradesExecuted = state.tradesExecuted + 1
              /\ state'.tradesSuccessful = state.tradesSuccessful + 1
              /\ state'.lastTradeAt = now
              /\ PositionSize(localRiskManager', m) = after
              /\ localRiskManager'.totalExposure
                    = localRiskManager.totalExposure - before + after
              /\ localRiskManager'.dailyPnL = day.pnl + r.realizedProfitUsd
              /\ localRiskManager'.dailyVolume = day.volume + r.filledSize
              /\ localRiskManager'.lastTradeTime = now]_vars

\* a completed purchase whose save threw is in the balance and in the
\* position of the RiskManager
C20_Witness ==
    /\ lastResult.status = "complete"
    /\ lastResult.id = NoId
    /\ lastResult.side = "BUY"
    /\ state.balance # arbConfig.simulation.startingBalance
    /\ PositionSize(localRiskManager, lastResult.opportunity.market1Id)
          >= lastResult.filledSize
    /\ localRiskManager.lastTradeTime = now

----------------------------------------------------------------------------
(* Properties of the semantic detector and of the LLM client *)

\* the step sends a request for the pair p to the external service
SendStep(p) ==
    /\ Len(requests') > Len(requests)
    /\ requests'[Len(requests')].pair = p

PairKeys == {generateKey(EntityPairs[i][1], EntityPairs[i][2]) :
                i \in 1..Len(EntityPairs)}

\* the cache holds a "none" entry for p that is not past its TTL
LiveNone(cache, p, t) ==
    \E i \in 1..Len(cache) :
       /\ cache[i].key = p
       /\ cache[i].result.relationshipType = "none"
       /\ t - cache[i].cachedAt <= llmConfig.cacheTtlMs

\* no request goes out for a pair with a live "none" entry
NoRequestWhileNegative ==
    \A p \in PairKeys : SendStep(p) => ~LiveNone(semCache, p, now)

\* C17: a pair the service classified as "none" is not sent to the service
\* again while its cache entry is live: no request goes out for a pair that
\* has a "none" entry within its TTL in the cache.
C17_NegativeNotRequestedAgain == [][NoRequestWhileNegative]_vars

\* the reply has no JSON object, or invalid JSON, or no relationship_type,
\* or a confidence that is not a number
Unparsable(response) ==
    /\ response.kind = "reply"
    /\ \/ ~response.match
       \/ ~response.valid
       \/ response.relationship_type = ""
       \/ ~response.confidenceIsNumber

Occurrences(s, x) == Cardinality({i \in 1..Len(s) : s[i] = x})

\* an unparsable reply is handled as "no relationship": the activation goes
\* on, emits no opportunity for the pair and stores a negative entry
ParseFailureHandled ==
    \A s \in LLMSlots :
       (sem[s].pc = "post" /\ sem'[s] # sem[s] /\ Unparsable(sem'[s].response))
          => LET pair == Head(sem[s].pairs)
                 key == generateKey(pair[1], pair[2])
             IN  /\ sem'[s].pc \in {"idle", "wait", "post"}
                 /\ Occurrences(sem'[s].opportunities, pair)
                       = Occurrences(sem[s].opportunities, pair)
                 /\ \E i \in 1..Len(semCache') :
                       /\ semCache'[i].key = key
                       /\ semCache'[i].result = NegativeResult
                       /\ semCache'[i].cachedAt = now

\* C18: when the reply cannot be parsed, the pair is treated as having no
\* relationship: no opportunity is emitted for it, the detector goes on
\* without an exception, a negative entry is stored in the cache, and the
\* pair is not requested again while that entry is live.
C18_ParseFailureIsNegative ==
    [][ParseFailureHandled /\ NoRequestWhileNegative]_vars

\* the requests sent in the 60 seconds that end at time t
SentInWindow(t) ==
    {i \in 1..Len(requests) :
        requests[i].at <= t /\ requests[i].at > t - RateWindowMs}

\* C19: in no rolling 60-second interval are more than rateLimitPerMinute
\* requests sent to the external service, failed requests included.
C19_RateLimitRespected ==
    \A i \in 1..Len(requests) :
        Cardinality(SentInWindow(requests[i].at))
           <= llmConfig.rateLimitPerMinute

----------------------------------------------------------------------------
(* Properties of the detectors and of the functions applied on their own *)

\* every leg of the opportunity has at least the liquidity given
LegsAtLeast(opportunity, floor) ==
    \A i \in 1..Len(opportunity.legs) : opportunity.legs[i] >= floor

\* C21: the liquidity check passes only if every leg of the opportunity,
\* each condition of a NegRisk opportunity included, has a liquidity of at
\* least minLiquidityUsd
C21_LiquidityCheckCoversLegs ==
    (call.fn = "checkLiquidity" /\ call.check.passed)
        => LegsAtLeast(call.opportunity, call.minLiquidityUsd)

\* a detector has run
Detected == call.fn \in DetectorNames

\* the opportunity passes the three thresholds of the detectors
PassesThresholds(o) ==
    /\ LegsAtLeast(o, arbConfig.risk.minLiquidityUsd)
    /\ o.profitPercent >= detectorConfig.minProfitThreshold
    /\ o.confidenceScore >= detectorConfig.minConfidence

\* C25: every opportunity a detector returns has every leg's liquidity at
\* or above the floor, a net profit percentage at or above the minimum
\* profit threshold and a confidence at or above the minimum confidence,
\* and the detector's output is sorted by profit percentage, descending
C25_EmittedPassThresholds ==
    Detected =>
        /\ \A i \in 1..Len(call.opportunities) :
              PassesThresholds(call.opportunities[i])
        /\ IsSortedDesc(call.opportunities)

\* the NegRisk detector returned two opportunities of different profit
C25_Witness ==
    /\ call.fn = "NegRiskDetector"
    /\ Len(call.opportunities) = 2
    /\ call.opportunities[1].profitPercent > call.opportunities[2].profitPercent

\* C26: every confidence score attached to an emitted opportunity lies in
\* [0, 1], whatever the confidence of the external model
C26_ConfidenceInUnitInterval ==
    Detected =>
        \A i \in 1..Len(call.opportunities) :
            /\ call.opportunities[i].confidenceScore >= 0
            /\ call.opportunities[i].confidenceScore <= 1000

\* the semantic detector emitted an opportunity whose combined confidence
\* was cut at 1
C26_Witness ==
    /\ call.fn = "SemanticDependencyDetector"
    /\ \E i \in 1..Len(call.opportunities) :
          call.opportunities[i].confidenceScore = 1000

\* C23: for every confidence score and profit percentage the Kelly fraction
\* lies in [0.01, 0.25], in particular whenever the position size is not
\* zero and when the expected profit is zero or negative
C23_KellyFractionClamped ==
    call.fn = "calculateKellyFraction" =>
        /\ call.fraction >= 100
        /\ call.fraction <= 2500

\* a non-zero size was computed for an opportunity of zero profit
C23_Witness ==
    /\ call.fn = "calculateKellyFraction"
    /\ call.expectedProfitPercent = 0
    /\ call.positionSize > 0
    /\ call.fraction = 100

----------------------------------------------------------------------------
(* Properties of PaperTradingExecutor.execute *)

\* the step records a trade, and the trade it records
Settles == Len(trades') = Len(trades) + 1

SettledTrade == trades'[Len(trades')]

\* 0.1 % and 2 % of a position size
Penalty(positionSize) == positionSize \div 1000

UnwindLoss(positionSize) == (positionSize * 2) \div 100

\* C22: after a leg-1 failure the bankroll is the bankroll before the trade
\* minus the penalty of 0.1 % of the position size (the settlement returns
\* the deducted capital less the penalty), the realized profit recorded is
\* that same negative amount and the trade is marked unsuccessful
C22_Leg1FailureCostsPenalty ==
    [][(Settles /\ SettledTrade.leg1Status = "failed") =>
          /\ bankroll' = bankroll + SettledTrade.positionSize
                            - Penalty(SettledTrade.positionSize)
          /\ SettledTrade.realizedProfit = -Penalty(SettledTrade.positionSize)
          /\ ~SettledTrade.success]_vars

\* C29: when leg 1 succeeds and leg 2 fails, the bankroll after the trade is
\* the bankroll before it minus 2 % of the position size (the settlement
\* returns the deducted capital less the loss), the realized profit
\* recorded is -2 % of the position size and the trade is marked
\* unsuccessful, with a failure reason
C29_Leg2FailureCostsTwoPercent ==
    [][(Settles /\ SettledTrade.failureReason
                      = "Leg 2 failed - position unwound at loss") =>
          /\ bankroll' = bankroll + SettledTrade.positionSize
                            - UnwindLoss(SettledTrade.positionSize)
          /\ SettledTrade.realizedProfit
                = -UnwindLoss(SettledTrade.positionSize)
          /\ UnwindLoss(SettledTrade.positionSize) > 0
          /\ ~SettledTrade.success
          /\ SettledTrade.leg1Status # "failed"]_vars

\* a trade whose second leg failed was recorded, at a loss
C29_Witness ==
    \E i \in 1..Len(trades) :
        /\ trades[i].failureReason = "Leg 2 failed - position unwound at loss"
        /\ trades[i].realizedProfit < 0
        /\ trades[i].balanceAfter = bankroll

\* the step is a call of execute by the activation in slot s
Calls(s) ==
    /\ call' # call
    /\ paperExec[s].pc = "idle"
    /\ \A r \in PaperSlots : r < s => paperExec[r].pc # "idle"

\* C30: with a bankroll below $10 execute returns null and changes neither
\* bankroll, trade history, trade-id counter, peak balance nor max drawdown;
\* otherwise exactly the position size is deducted before the execution
\* delay, and the bankroll stays reduced by it until the trade settles: no
\* step other than a call or a settlement changes the bankroll or the size
\* of a position awaiting its settlement
C30_SizingAndDeduction ==
    [][/\ \A s \in PaperSlots : Calls(s) =>
             IF bankroll < 10 * 1000
             THEN /\ call'.returned = "null"
                  /\ UNCHANGED <<bankroll, trades, tradeIdCounter, peakBalance,
                                 maxDrawdown, paperExec>>
             ELSE /\ call'.returned = "pending"
                  /\ calculatePositionSize(bankroll, call'.opportunity) > 0
                  /\ bankroll' = bankroll
                        - calculatePositionSize(bankroll, call'.opportunity)
                  /\ paperExec'[s].pc = "sleep"
                  /\ paperExec'[s].positionSize
                        = calculatePositionSize(bankroll, call'.opportunity)
                  /\ UNCHANGED <<trades, tradeIdCounter, peakBalance,
                                 maxDrawdown>>
       /\ (call' = call /\ ~Settles) => bankroll' = bankroll
       /\ \A s \in PaperSlots :
             (paperExec[s].pc = "sleep" /\ paperExec'[s].pc = "sleep")
                => paperExec'[s] = paperExec[s]]_vars

\* execute returned null for a bankroll just below $10 and the executor is
\* as it was constructed
C30_Witness ==
    /\ call.fn = "PaperTradingExecutor.execute"
    /\ call.returned = "null"
    /\ bankroll = 9999
    /\ trades = <<>>

----------------------------------------------------------------------------
(* Properties of the tracking map over many cycles *)

\* the number of the last detect call whose cycle deleted key k (0 if none)
LastExpiry(k) ==
    LET S == {i \in 1..Len(Log) : k \in Log[i].expired}
    IN  IF S = {} THEN 0 ELSE CHOOSE i \in S : \A j \in S : j <= i

\* the detect calls after call number since that returned key k, in order
DetectionsAfter(k, since) ==
    SelectSeq([i \in 1..Len(Log) |-> [no |-> i, at |-> Log[i]]],
              LAMBDA d : d.no > since /\ k \in DOMAIN d.at.spreads)

\* the detect calls that returned key k since its entry was created
DetectionsOf(k) == {DetectionsAfter(k, since) : since \in {LastExpiry(k)}}

\* the last n elements of s
LastN(s, n) == SubSeq(s, Len(s) - n + 1, Len(s))

\* the history entries updateTracking pushes for the detections D of key k
Samples(D, k) ==
    [i \in 1..Len(D) |-> [timestamp |-> D[i].at.t,
                          spread |-> D[i].at.spreads[k]]]

\* C27: every tracked entry's seen-count is the number of cycles in which
\* its key was detected since the entry was created, and at least 1; its
\* spread history has 1 to 10 samples, the last min(seen-count, 10) spreads
\* detected, in order; first-seen <= last-seen, first-seen is the time of the
\* first of these detections and last-seen the time of the latest
C27_TrackedEntryCounts ==
    \A k \in DOMAIN trackedOpportunities :
    \A D \in DetectionsOf(k) :
       LET e == trackedOpportunities[k] IN
           /\ e.seenCount = Len(D)
           /\ e.seenCount >= 1
           /\ Len(e.priceHistory) >= 1
           /\ Len(e.priceHistory) <= 10
           /\ e.priceHistory = Samples(LastN(D, Min(e.seenCount, 10)), k)
           /\ e.firstSeenAt = D[1].at.t
           /\ e.lastSeenAt = D[Len(D)].at.t
           /\ e.firstSeenAt <= e.lastSeenAt

\* an entry seen in 11 cycles holds the last 10 spreads, the first one
\* shifted out, while another entry was evicted and created again
C27_Witness ==
    /\ \E k \in DOMAIN trackedOpportunities :
          /\ trackedOpportunities[k].seenCount = 11
          /\ Len(trackedOpportunities[k].priceHistory) = 10
          /\ trackedOpportunities[k].priceHistory[1].timestamp
                > trackedOpportunities[k].firstSeenAt
    /\ \E k \in DOMAIN trackedOpportunities :
          /\ LastExpiry(k) > 0
          /\ trackedOpportunities[k].seenCount >= 2

----------------------------------------------------------------------------
(* Properties of RiskManager.updateAfterExecution *)

\* the size held in market m by the position map f; 0 if none is stored
Held(f, m) == IF m \in DOMAIN f THEN f[m] ELSE 0

\* C28: after every updateAfterExecution the position of the market is the
\* position before it plus the size of a BUY or minus the size of a SELL,
\* stored only if that net size is positive and removed otherwise; the other
\* positions are untouched, no stored position has a size <= 0, and the
\* total exposure is the sum of the absolute sizes of the stored positions
C28_PositionsNetted ==
    [][call' # call =>
         LET before == localRiskManager.positions
             after  == localRiskManager'.positions
             net == IF call'.side = "BUY"
                    THEN Held(before, call'.marketId) + call'.sizeUsd
                    ELSE Held(before, call'.marketId) - call'.sizeUsd
         IN  /\ IF net > 0
                THEN /\ call'.marketId \in DOMAIN after
                     /\ after[call'.marketId] = net
                ELSE call'.marketId \notin DOMAIN after
             /\ \A m \in Markets \ {call'.marketId} :
                   /\ m \in DOMAIN after <=> m \in DOMAIN before
                   /\ Held(after, m) = Held(before, m)
             /\ \A m \in DOMAIN after : after[m] > 0
             /\ localRiskManager'.totalExposure
                   = Abs(Held(after, "m1")) + Abs(Held(after, "m2"))]_vars

\* a sale has removed the position it brought to zero or below while a
\* position of 50 is still held in the other market
C28_Witness ==
    /\ call.fn = "RiskManager.updateAfterExecution"
    /\ call.side = "SELL"
    /\ call.marketId \notin DOMAIN localRiskManager.positions
    /\ localRiskManager.dailyVolume = 300
    /\ \E m \in DOMAIN localRiskManager.positions :
          /\ localRiskManager.positions[m] = 50
          /\ localRiskManager.totalExposure = 50

----------------------------------------------------------------------------
(* Properties of PaperTradingExecutor.calculatePositionSize *)

\* C31: for every bankroll of $10 or more, a non-zero position size is at
\* most 25 % of the bankroll and at most arbConfig.risk.maxPositionSizeUsd
C31_PositionSizeCapped ==
    (/\ call.fn = "calculateKellyFraction"
     /\ call.bankroll >= 10 * 1000
     /\ call.positionSize # 0) =>
        /\ call.positionSize * 4 <= call.bankroll
        /\ call.positionSize <= arbConfig.risk.maxPositionSizeUsd * 1000

----------------------------------------------------------------------------
(* Properties of overlapping SimulationExecutor.execute calls *)

\* C32: after any executions through SimulationExecutor, without an
\* emergencyStop, every per-market position is at most maxPositionSizeUsd
\* and the total exposure is at most maxTotalExposureUsd
C32_PositionsWithinCaps ==
    /\ \A m \in DOMAIN localRiskManager.positions :
          localRiskManager.positions[m]
             <= localRiskManager.limits.maxPositionSizeUsd
    /\ localRiskManager.totalExposure
          <= localRiskManager.limits.maxTotalExposureUsd

\* the step completes an execution
Completes == state'.tradesSuccessful = state.tradesSuccessful + 1

\* C33: two consecutive completed executions recorded by one RiskManager are
\* at least cooldownMs apart, and between an approval and its
\* updateAfterExecution no second execution is approved
C33_CooldownBetweenExecutions ==
    [][/\ (Completes /\ state.tradesSuccessful > 0) =>
             now - localRiskManager.lastTradeTime
                >= localRiskManager.limits.cooldownMs
       /\ Len(simExec') <= 1]_vars


\* the UTC midnight at or before t
LastMidnight(t) == (t \div DayMs) * DayMs

RECURSIVE PnLSince(_, _)
\* the sum of the P&L of the executions of log completed at or after t
PnLSince(log, t) ==
    IF log = <<>> THEN 0
    ELSE (IF Head(log).at >= t THEN Head(log).pnl ELSE 0)
            + PnLSince(Tail(log), t)

\* the step is a call of execute, which starts with checkPreExecution
ChecksPreExecution == executionsAttempted' = executionsAttempted + 1

\* C34: at every checkPreExecution the daily P&L the daily-loss check reads
\* (after checkDailyReset) is the sum of the P&L of the executions completed
\* since the most recent UTC midnight
C34_DailyPnLOfToday ==
    [][ChecksPreExecution =>
          localRiskManager'.dailyPnL
             = PnLSince(Completions, LastMidnight(now))]_vars

----------------------------------------------------------------------------
(* Properties of the paper account over sequences of trades *)

RECURSIVE NetProfit(_)
\* getStats().netProfit: the sum of realizedProfit over the trades ts
NetProfit(ts) ==
    IF ts = <<>> THEN 0
    ELSE ts[Len(ts)].realizedProfit + NetProfit(SubSeq(ts, 1, Len(ts) - 1))

\* the balance before trade i of a sequence of awaited trades
BalanceBefore(i) ==
    IF i = 1 THEN StartingBankroll ELSE trades[i - 1].balanceAfter

\* C35: after any sequence of awaited execute calls the bankroll minus the
\* starting bankroll is the sum of realizedProfit over the recorded trades,
\* and each trade's balanceAfter is the balance before it plus its
\* realizedProfit
C35_BankrollIsSumOfProfits ==
    paperExec[1].pc = "idle" =>
        /\ bankroll - StartingBankroll = NetProfit(trades)
        /\ \A i \in 1..Len(trades) :
              trades[i].balanceAfter
                 = BalanceBefore(i) + trades[i].realizedProfit


\* the largest totalSlippageBps simulateCLOBExecution can return for a
\* position of positionSize mills: the price impact at its largest and the
\* noise of the first leg at +20 %
WorstSlippageBps(opportunity, positionSize) ==
    LET orderSizeUsd == (positionSize + 999) \div 1000
        leg1 == addNoise(estimate(orderSizeUsd, opportunity.market1Liquidity,
                                  TRUE, 10000), 20)
    IN  leg1.estimatedSlippageBps
          + (IF opportunity.market2Liquidity > 0
             THEN estimate(orderSizeUsd, opportunity.market2Liquidity,
                           FALSE, 0).estimatedSlippageBps
             ELSE 0)

\* the execution with the smallest fill and the largest slippage
WorstExecution(opportunity, positionSize) ==
    [leg1Failed |-> FALSE, leg2Failed |-> FALSE, fillRate |-> 50,
     totalSlippageBps |-> WorstSlippageBps(opportunity, positionSize)]

\* C36: the bankroll of the paper executor is never negative: not after the
\* deduction of a position size, not while activations wait, and not after
\* a settlement, whichever way the execution went, the settlement at the
\* largest slippage the slippage model can return included
C36_BankrollNeverNegative ==
    /\ bankroll >= 0
    /\ \A s \in PaperSlots :
          paperExec[s].pc = "sleep" =>
             /\ paperExec[s].positionSize > 0
             /\ settle(bankroll, paperExec[s].positionSize,
                       paperExec[s].opportunity,
                       WorstExecution(paperExec[s].opportunity,
                                      paperExec[s].positionSize)).bankroll >= 0
    /\ \A i \in 1..Len(trades) : trades[i].balanceAfter >= 0

\* the bankroll at its lowest: $5 are left of $10 while the trade waits for
\* its settlement
C36_Witness ==
    /\ bankroll = 5 * 1000
    /\ trades = <<>>
    /\ \E s \in PaperSlots :
          paperExec[s].pc = "sleep" /\ paperExec[s].positionSize = 5 * 1000


RECURSIVE PeakOf(_)
\* the largest balance at the completion of any of the trades ts, or the
\* starting bankroll
PeakOf(ts) ==
    IF ts = <<>> THEN StartingBankroll
    ELSE Max(ts[Len(ts)].balanceAfter, PeakOf(SubSeq(ts, 1, Len(ts) - 1)))

RECURSIVE LargestDrawdown(_)
\* the largest (peak - bankroll) / peak at the completion of any of the
\* trades ts, in 1/10000
LargestDrawdown(ts) ==
    IF ts = <<>> THEN 0
    ELSE Max(((PeakOf(ts) - ts[Len(ts)].balanceAfter) * 10000) \div PeakOf(ts),
             LargestDrawdown(SubSeq(ts, 1, Len(ts) - 1)))

\* C37: after every completed paper trade the peak balance is at least the
\* bankroll and is the largest bankroll seen at a trade completion (or the
\* starting bankroll); the max drawdown never decreases, lies in [0, 1] and
\* is the largest (peak - bankroll) / peak seen at a trade completion; also
\* when activations of execute overlap
C37_PeakAndDrawdown ==
    [][/\ maxDrawdown' >= maxDrawdown
       /\ Settles =>
             /\ peakBalance' >= bankroll'
             /\ peakBalance' = PeakOf(trades')
             /\ maxDrawdown' = LargestDrawdown(trades')
             /\ maxDrawdown' >= 0
             /\ maxDrawdown' <= 10000]_vars

\* two trades overlapped: the first completed at a profit while the capital
\* of the second was still deducted, which counts as a drawdown; the second
\* then raised the peak
C37_Witness ==
    /\ Len(trades) = 2
    /\ trades[1].realizedProfit > 0
    /\ trades[1].balanceAfter < StartingBankroll
    /\ maxDrawdown > 0
    /\ peakBalance > StartingBankroll
    /\ peakBalance = bankroll

----------------------------------------------------------------------------
(* Properties of the relationship type of semantic opportunities *)

\* C38: the semantic detector emits no opportunity for a pair whose
\* relationship is "none", in whatever letter case the reply gives it, or
\* is any value other than subset, superset, mutual_exclusion,
\* logical_bound, nested_target and temporal
C38_NoOpportunityForNone ==
    (call.fn = "analyzeMarketPair" /\ call.emitted) =>
        /\ toLowerCase(call.response.relationship_type) \in RelationshipTypes
        /\ call.analysis.relationshipType \in RelationshipTypes

----------------------------------------------------------------------------
(* Properties of the SemanticCache *)

\* the step is an operation of the cache
CacheStep == call'.fn = "SemanticCache" /\ call'.no = call.no + 1

\* the keys of a cache
Keys(cache) == {cache[i].key : i \in 1..Len(cache)}

\* the entries of the cache before the step that the step removed, and
\* those other than the one set that it kept
Evicted == {i \in 1..Len(semCache) : semCache[i].key \notin Keys(semCache')}

Kept ==
    {i \in 1..Len(semCache) :
        /\ semCache[i].key \in Keys(semCache')
        /\ semCache[i].key # generateKey(call'.pair[1], call'.pair[2])}

\* C39: after every operation the cache holds at most maxSize entries, each
\* key once; after set(result) the entry of the pair is present with that
\* result; a set below capacity removes nothing, and a set at capacity
\* removes only entries whose last access is no later than that of every
\* entry it keeps
C39_CacheBounded ==
    [][CacheStep =>
          /\ Len(semCache') <= call'.maxSize
          /\ Cardinality(Keys(semCache')) = Len(semCache')
          /\ call'.op = "set" =>
                /\ \E i \in 1..Len(semCache') :
                      /\ semCache'[i].key
                            = generateKey(call'.pair[1], call'.pair[2])
                      /\ semCache'[i].result = call'.returned
                      /\ semCache'[i].cachedAt = now
                /\ Len(semCache) < call'.maxSize => Evicted = {}
                /\ \A r \in Evicted : \A k \in Kept :
                      semCache[r].lastAccess <= semCache[k].lastAccess]_vars

\* a full cache of 20 evicted its two oldest entries, and kept the entry
\* inserted first because it was read later
C39_Witness ==
    /\ call.fn = "SemanticCache"
    /\ call.maxSize = 20
    /\ call.op = "set"
    /\ Len(semCache) = 19
    /\ <<"m1", "m2">> \in Keys(semCache)
    /\ <<"m1", "m3">> \notin Keys(semCache)
    /\ <<"m1", "m4">> \notin Keys(semCache)


\* the entry of the pair of the step in the cache before it (0 if none), and
\* whether it was stored more than the TTL ago
Looked == CacheIndex(semCache, generateKey(call'.pair[1], call'.pair[2]))

Expired == now - semCache[Looked].cachedAt > llmConfig.cacheTtlMs

\* C40: get never returns an entry stored more than the TTL ago: it deletes
\* such an entry and reports a miss, as has does; an entry no older than the
\* TTL is returned; and get(a, b) and get(b, a) return the same
C40_FreshAndSymmetric ==
    [][(CacheStep /\ call'.op \in {"get", "has"}) =>
          /\ Looked = 0 =>
                /\ call'.returned = (IF call'.op = "get" THEN NoAnalysis
                                     ELSE FALSE)
                /\ semCache' = semCache
          /\ (Looked # 0 /\ Expired) =>
                /\ call'.returned = (IF call'.op = "get" THEN NoAnalysis
                                     ELSE FALSE)
                /\ semCache' = RemoveAt(semCache, Looked)
          /\ (Looked # 0 /\ ~Expired) =>
                /\ call'.returned = (IF call'.op = "get"
                                     THEN semCache[Looked].result ELSE TRUE)
                /\ Keys(semCache') = Keys(semCache)
          /\ SemanticCache_get(semCache, call'.pair[2], call'.pair[1], now)
                = SemanticCache_get(semCache, call'.pair[1], call'.pair[2],
                                    now)]_vars

\* get was called with the pair reversed for an entry stored 90 seconds
\* before, under a TTL of 60: a miss, and the entry is gone
C40_Witness ==
    /\ call.fn = "SemanticCache"
    /\ call.op = "get"
    /\ call.pair = <<"m2", "m1">>
    /\ call.returned = NoAnalysis
    /\ call.maxSize = 20
    /\ now = 3 * LLMTickMs
    /\ Len(semCache) = 18
    /\ <<"m1", "m2">> \notin Keys(semCache)

====
